---- MODULE Spec2Model ----
(***************************************************************************)
(* Model of the QR-decomposition capture checkers of                       *)
(* cal-mimo-building-blocks:                                               *)
(*   3_systolic_cordic_fixedpoint/scripts/error_checker.py   ("square",    *)
(*       relative error with the near-zero clamp), and                     *)
(*   5_..._rectangualr_matrices/scripts/error_checker.py     ("rect",      *)
(*       absolute error, early-stopping scan, removal of processed lines). *)
(*                                                                         *)
(* A capture file is a sequence of lines, a line a sequence of one-        *)
(* character strings, so that find / rfind / slicing / split / int are     *)
(* modelled on the text itself.  Real numbers are exact rationals          *)
(* <<num, den>> (den > 0, lowest terms); <<0, 0>> is numpy's nan,          *)
(* <<1, 0>> is +inf and <<-1, 0>> is -inf.  Floating-point rounding is not *)
(* modelled.  An array carries its numpy dtype: the decoded matrices are   *)
(* int64 arrays for n = 0 and float64 arrays for n > 0.                    *)
(***************************************************************************)
EXTENDS Integers, Sequences, FiniteSets, TLC

(***************************************************************************)
(* Integers and exact rationals                                            *)
(***************************************************************************)
AbsInt(x) == IF x < 0 THEN -x ELSE x

RECURSIVE GCD(_, _)
GCD(a, b) == IF b = 0 THEN a ELSE GCD(b, a % b)

RECURSIVE Pow2(_)
Pow2(e) == IF e = 0 THEN 1 ELSE 2 * Pow2(e - 1)

NaN == <<0, 0>>
Inf == <<1, 0>>
NegInf == <<-1, 0>>
IsNum(x) == x[2] # 0

\* lowest terms, positive denominator
RNorm(p, q) ==
    LET g == GCD(AbsInt(p), AbsInt(q))
        s == IF q < 0 THEN -1 ELSE 1
    IN  <<s * (p \div g), s * (q \div g)>>

RInt(k) == <<k, 1>>
Zero == <<0, 1>>

Sign(k) == IF k < 0 THEN -1 ELSE IF k = 0 THEN 0 ELSE 1

RAdd(x, y) ==
    IF x = NaN \/ y = NaN THEN NaN
    ELSE IF ~IsNum(x) THEN (IF ~IsNum(y) /\ y # x THEN NaN ELSE x)
    ELSE IF ~IsNum(y) THEN y
    ELSE LET g == GCD(x[2], y[2])
         IN  RNorm(x[1] * (y[2] \div g) + y[1] * (x[2] \div g), x[2] * (y[2] \div g))

RNeg(x) == <<-x[1], x[2]>>

RSub(x, y) == RAdd(x, RNeg(y))

RMul(x, y) ==
    IF x = NaN \/ y = NaN THEN NaN
    ELSE IF ~IsNum(x) \/ ~IsNum(y) THEN <<Sign(x[1]) * Sign(y[1]), 0>>
    ELSE LET a == RNorm(x[1], y[2])
             b == RNorm(y[1], x[2])
         IN  RNorm(a[1] * b[1], a[2] * b[2])

\* numpy float division: x/0 is nan for x = 0 and +-inf otherwise, no
\* exception (the zeros of the checkers are +0.0)
RDiv(x, y) ==
    IF x = NaN \/ y = NaN THEN NaN
    ELSE IF ~IsNum(y) THEN (IF IsNum(x) THEN Zero ELSE NaN)
    ELSE IF ~IsNum(x) THEN <<x[1] * (IF y[1] < 0 THEN -1 ELSE 1), 0>>
    ELSE IF y[1] = 0 THEN <<Sign(x[1]), 0>>
    ELSE LET s == IF y[1] < 0 THEN -1 ELSE 1
         IN  RMul(x, <<s * y[2], s * y[1]>>)

RAbs(x) == <<AbsInt(x[1]), x[2]>>

\* x < y; any comparison with nan is False
RLess(x, y) ==
    IF x = NaN \/ y = NaN \/ x = y THEN FALSE
    ELSE IF x = NegInf \/ y = Inf THEN TRUE
    ELSE IF x = Inf \/ y = NegInf THEN FALSE
    ELSE LET g == GCD(x[2], y[2])
         IN  x[1] * (y[2] \div g) < y[1] * (x[2] \div g)

RLeq(x, y) == x = y \/ RLess(x, y)

(***************************************************************************)
(* Python string operations on sequences of characters                     *)
(***************************************************************************)
Digits == <<"0", "1", "2", "3", "4", "5", "6", "7", "8", "9">>
Whitespace == {" ", "\n", "\t", "\r"}

Min(a, b) == IF a < b THEN a ELSE b
Max(a, b) == IF a < b THEN b ELSE a

\* does pat occur in s at 0-based offset k
MatchAt(s, pat, k) ==
    /\ k + Len(pat) <= Len(s)
    /\ \A j \in 1..Len(pat) : s[k + j] = pat[j]

\* str.find: lowest 0-based offset of pat in s, or -1
Find(s, pat) ==
    LET hits == {k \in 0..Len(s) : MatchAt(s, pat, k)}
    IN  IF hits = {} THEN -1 ELSE CHOOSE k \in hits : \A h \in hits : k <= h

\* str.rfind: highest 0-based offset of pat in s, or -1
RFind(s, pat) ==
    LET hits == {k \in 0..Len(s) : MatchAt(s, pat, k)}
    IN  IF hits = {} THEN -1 ELSE CHOOSE k \in hits : \A h \in hits : k >= h

\* a slice bound as Python clips it
Clip(s, a) == IF a < 0 THEN Max(Len(s) + a, 0) ELSE Min(a, Len(s))

\* s[a:b]
Slice(s, a, b) == SubSeq(s, Clip(s, a) + 1, Clip(s, b))

\* s[a:]
SliceFrom(s, a) == SubSeq(s, Clip(s, a) + 1, Len(s))

\* str.split(): maximal runs of non-whitespace characters, in order
RECURSIVE SplitFrom(_, _, _, _)
SplitFrom(s, k, cur, acc) ==
    IF k > Len(s) THEN (IF cur = <<>> THEN acc ELSE Append(acc, cur))
    ELSE IF s[k] \in Whitespace
         THEN SplitFrom(s, k + 1, <<>>, IF cur = <<>> THEN acc ELSE Append(acc, cur))
         ELSE SplitFrom(s, k + 1, Append(cur, s[k]), acc)

Split(s) == SplitFrom(s, 1, <<>>, <<>>)

DigitVal(c) == (CHOOSE d \in 1..10 : Digits[d] = c) - 1
IsDigit(c) == \E d \in 1..10 : Digits[d] = c

RECURSIVE DigitsVal(_, _)
DigitsVal(s, acc) ==
    IF s = <<>> THEN acc ELSE DigitsVal(Tail(s), 10 * acc + DigitVal(Head(s)))

RECURSIVE LStrip(_)
LStrip(s) == IF s # <<>> /\ Head(s) \in Whitespace THEN LStrip(Tail(s)) ELSE s

RECURSIVE RStrip(_)
RStrip(s) ==
    IF s # <<>> /\ s[Len(s)] \in Whitespace THEN RStrip(SubSeq(s, 1, Len(s) - 1)) ELSE s

\* int(s): surrounding whitespace, an optional sign, then one or more digits;
\* anything else raises ValueError (ok = FALSE)
PyInt(s) ==
    LET t == RStrip(LStrip(s))
        signed == t # <<>> /\ t[1] \in {"-", "+"}
        body == IF signed THEN Tail(t) ELSE t
    IN  IF body # <<>> /\ \A k \in 1..Len(body) : IsDigit(body[k])
        THEN [ok |-> TRUE,
              v |-> IF signed /\ t[1] = "-" THEN -DigitsVal(body, 0) ELSE DigitsVal(body, 0)]
        ELSE [ok |-> FALSE, v |-> 0]

\* str(i) of an integer, as an f-string prints it
RECURSIVE NatStr(_)
NatStr(k) == IF k < 10 THEN <<Digits[k + 1]>> ELSE Append(NatStr(k \div 10), Digits[(k % 10) + 1])

Str(k) == IF k < 0 THEN <<"-">> \o NatStr(-k) ELSE NatStr(k)

(***************************************************************************)
(* numpy arrays.  An array is [nd, rows]: nd is the number of dimensions   *)
(* (0 a scalar, 1 a vector, 2 a matrix) and rows its values seen as a      *)
(* matrix (a scalar as 1x1, a vector of length L as 1xL), which is how     *)
(* numpy broadcasts it against a matrix.                                   *)
(***************************************************************************)
NRows(a) == Len(a.rows)
NCols(a) == Len(a.rows[1])
Size(a) == NRows(a) * NCols(a)
Shape(a) == IF a.nd = 0 THEN <<>> ELSE IF a.nd = 1 THEN <<NCols(a)>> ELSE <<NRows(a), NCols(a)>>
NoArray == [nd |-> -1, dtype |-> "", rows |-> << <<>> >>]
Scalar(v, dt) == [nd |-> 0, dtype |-> dt, rows |-> << <<v>> >>]

\* np.array(list of rows): [] is the empty vector; rows of unequal length are
\* refused (ValueError, inhomogeneous shape); the array of Python ints is an
\* int64 array, the array of floats or of no values a float64 array
NpArray(rows, ints) ==
    IF rows = <<>> THEN [ok |-> TRUE, arr |-> [nd |-> 1, dtype |-> "float64", rows |-> << <<>> >>]]
    ELSE IF \A k \in 1..Len(rows) : Len(rows[k]) = Len(rows[1])
         THEN [ok |-> TRUE,
               arr |-> [nd |-> 2,
                        dtype |-> IF ints /\ rows[1] # <<>> THEN "int64" ELSE "float64",
                        rows |-> rows]]
         ELSE [ok |-> FALSE, arr |-> NoArray]

\* the type of the result of an operation on two arrays
Promote(X, Y) == IF X.dtype = "int64" /\ Y.dtype = "int64" THEN "int64" ELSE "float64"

RECURSIVE SumSeq(_)
SumSeq(s) == IF s = <<>> THEN Zero ELSE RAdd(Head(s), SumSeq(Tail(s)))

RECURSIVE Concat(_)
Concat(ss) == IF ss = <<>> THEN <<>> ELSE Head(ss) \o Concat(Tail(ss))

\* all values of an array, row by row
Flat(a) == Concat(a.rows)

\* the inner product of row i of X's view and column j of Y's view
Dot(xrow, Y, j) == SumSeq([t \in 1..Len(xrow) |-> RMul(xrow[t], Y.rows[t][j])])

\* np.matmul on vectors and matrices; a mismatch of the inner dimension is a
\* ValueError, vector x vector is a scalar
MatMul(X, Y) ==
    IF X.nd = 1 /\ Y.nd = 1
    THEN IF NCols(X) = NCols(Y)
         THEN [ok |-> TRUE,
               arr |-> Scalar(SumSeq([t \in 1..NCols(X) |-> RMul(X.rows[1][t], Y.rows[1][t])]),
                              Promote(X, Y))]
         ELSE [ok |-> FALSE, arr |-> NoArray]
    ELSE IF Y.nd = 1
    THEN IF NCols(X) = NCols(Y)
         THEN [ok |-> TRUE,
               arr |-> [nd |-> 1, dtype |-> Promote(X, Y),
                        rows |-> << [i \in 1..NRows(X) |->
                            SumSeq([t \in 1..NCols(X) |-> RMul(X.rows[i][t], Y.rows[1][t])])] >>]]
         ELSE [ok |-> FALSE, arr |-> NoArray]
    ELSE IF NCols(X) = NRows(Y)
    THEN [ok |-> TRUE,
          arr |-> [nd |-> X.nd, dtype |-> Promote(X, Y),
                   rows |-> [i \in 1..NRows(X) |->
                                [j \in 1..NCols(Y) |-> Dot(X.rows[i], Y, j)]]]]
    ELSE [ok |-> FALSE, arr |-> NoArray]

\* broadcasting of two arrays: each dimension equal, or one of them 1
Compatible(X, Y) ==
    /\ NRows(X) = NRows(Y) \/ NRows(X) = 1 \/ NRows(Y) = 1
    /\ NCols(X) = NCols(Y) \/ NCols(X) = 1 \/ NCols(Y) = 1

BDim(d1, d2) == IF d1 = 1 THEN d2 ELSE d1

At(a, i, j) == a.rows[IF NRows(a) = 1 THEN 1 ELSE i][IF NCols(a) = 1 THEN 1 ELSE j]

\* np.abs of an array
NpAbs(X) ==
    [nd |-> X.nd, dtype |-> X.dtype,
     rows |-> [i \in 1..NRows(X) |-> [j \in 1..NCols(X) |-> RAbs(X.rows[i][j])]]]

\* np.max of a non-empty sequence of floats: nan if any value is nan
NpMax(s) ==
    IF \E k \in 1..Len(s) : s[k] = NaN THEN NaN
    ELSE CHOOSE v \in {s[k] : k \in 1..Len(s)} : \A k \in 1..Len(s) : RLeq(s[k], v)

\* np.mean: the sum over the count; nan for no values
NpMean(s) == IF s = <<>> THEN NaN ELSE RDiv(SumSeq(s), RInt(Len(s)))

\* the square of np.std (population variance): mean(|x - mean(x)|^2)
NpVar(s) ==
    LET mu == NpMean(s)
    IN  NpMean([k \in 1..Len(s) |-> RMul(RSub(s[k], mu), RSub(s[k], mu))])

(***************************************************************************)
(* The text of a capture line and the parts the checkers cut out of it     *)
(***************************************************************************)
COLON == <<":">>
ROW == <<"r", "o", "w", " ">>

\* x[0:x.find(":")]
Prefix(line) == Slice(line, 0, Find(line, COLON))

\* f"{K}{i}"
Tag(K, i) == <<K>> \o Str(i)

\* x[x.rfind(":")+2:-2].split()
NumField(line) == Split(Slice(line, RFind(line, COLON) + 2, -2))

\* the selection by x.startswith(f"{K}{i}")
SelectLinesStartsWith(lines, K, i) == SelectSeq(lines, LAMBDA ln : Find(ln, Tag(K, i)) = 0)

\* [x for x in content if x[0:x.find(":")] == f"{K}{i}"]
SelectLines(lines, K, i) == SelectSeq(lines, LAMBDA ln : Prefix(ln) = Tag(K, i))

\* the integer taken as the value: int(x)
DecodeUnscaled(raw, n) == RInt(raw)

\* int(x)*(2**-n)
Decode(raw, n) == RNorm(raw, Pow2(n))

\* [[int(x)*(2**-n) for x in line] for line in ...] and np.array of it; a
\* token int() refuses raises ValueError; 2**-n is the int 1 for n = 0 and a
\* float for n > 0
LoadMatrix(tokrows, n) ==
    IF \E r \in 1..Len(tokrows) : \E t \in 1..Len(tokrows[r]) : ~PyInt(tokrows[r][t]).ok
    THEN [exc |-> "ValueError", arr |-> NoArray]
    ELSE LET a == NpArray([r \in 1..Len(tokrows) |->
                      [t \in 1..Len(tokrows[r]) |-> Decode(PyInt(tokrows[r][t]).v, n)]], n = 0)
         IN  [exc |-> IF a.ok THEN "" ELSE "ValueError", arr |-> a.arr]

\* the count without the + 1
NumArraysLastIndex(lines) ==
    IF lines = <<>> THEN [exc |-> "IndexError", v |-> 0]
    ELSE LET p == PyInt(Slice(lines[Len(lines)], 1, Find(lines[Len(lines)], COLON)))
         IN  IF p.ok THEN [exc |-> "", v |-> p.v] ELSE [exc |-> "ValueError", v |-> 0]

\* int(content[-1][1:content[-1].find(":")]) + 1
NumArrays(lines) ==
    IF lines = <<>> THEN [exc |-> "IndexError", v |-> 0]
    ELSE LET last == lines[Len(lines)]
             p == PyInt(Slice(last, 1, Find(last, COLON)))
         IN  [exc |-> IF p.ok THEN "" ELSE "ValueError", v |-> p.v + 1]

\* int(line[line.find("row ")+4][0:line.find(":")])
RowDigit(line) ==
    LET k == Find(line, ROW) + 4
    IN  IF k >= Len(line) THEN [exc |-> "IndexError", v |-> 0]
        ELSE LET p == PyInt(Slice(<<line[k + 1]>>, 0, Find(line, COLON)))
             IN  [exc |-> IF p.ok THEN "" ELSE "ValueError", v |-> p.v]

(***************************************************************************)
(* One pass of the loop body over instance i.  The result records how far  *)
(* the body got (stage), the exception that ended it (exc, "" for none)    *)
(* and the values of its locals.                                           *)
(***************************************************************************)
Blank ==
    [stage |-> "", exc |-> "", A |-> NoArray, Q |-> NoArray, R |-> NoArray,
     Ar |-> NoArray, near0 |-> NaN, Ac |-> NoArray, Arc |-> NoArray,
     errors |-> NoArray, highest |-> NaN, mean |-> NaN, var |-> NaN]

\* near0 = np.mean(np.abs(A_reconstructed))/1000
Near0(Ar) == RDiv(NpMean(Flat(NpAbs(Ar))), RInt(1000))

\* the value an array of type dt stores for the float v: an int64 array
\* stores the integer part
Cast(v, dt) ==
    IF dt = "int64" /\ IsNum(v)
    THEN RInt(IF v[1] < 0 THEN -((-v[1]) \div v[2]) ELSE v[1] \div v[2])
    ELSE v

\* X[np.abs(X) < near0] = near0
Clamp(X, near0) ==
    [nd |-> X.nd, dtype |-> X.dtype,
     rows |-> [i \in 1..NRows(X) |->
                 [j \in 1..NCols(X) |->
                     IF RLess(RAbs(X.rows[i][j]), near0) THEN Cast(near0, X.dtype)
                     ELSE X.rows[i][j]]]]

\* np.abs((A - A_reconstructed)/A), on broadcast operands
RelErrors(A, Ar) ==
    [nd |-> Max(A.nd, Ar.nd), dtype |-> "float64",
     rows |-> [i \in 1..BDim(NRows(A), NRows(Ar)) |->
                 [j \in 1..BDim(NCols(A), NCols(Ar)) |->
                     RAbs(RDiv(RSub(At(A, i, j), At(Ar, i, j)), At(A, i, j)))]]]

\* np.abs(A - A_reconstructed), on broadcast operands
AbsErrors(A, Ar) ==
    [nd |-> Max(A.nd, Ar.nd), dtype |-> Promote(A, Ar),
     rows |-> [i \in 1..BDim(NRows(A), NRows(Ar)) |->
                 [j \in 1..BDim(NCols(A), NCols(Ar)) |->
                     RAbs(RSub(At(A, i, j), At(Ar, i, j)))]]]

Tokens(sel) == [k \in 1..Len(sel) |-> NumField(sel[k])]

\* Each operator below takes the locals so far (g) and the value the next
\* statement computed, and goes on from there.

\* highest_error = np.max(errors); mean_error = np.mean(errors)
SquareErrors(g, errors) ==
    IF Size(errors) = 0
    THEN [g EXCEPT !.errors = errors, !.stage = "max", !.exc = "ValueError"]
    ELSE [g EXCEPT !.errors = errors, !.stage = "ok",
                   !.highest = NpMax(Flat(errors)), !.mean = NpMean(Flat(errors))]

\* errors = np.abs((A_matrix_fp_np - A_reconstructed)/A_matrix_fp_np)
SquareClamped(g, Ac, Arc) ==
    IF ~Compatible(Ac, Arc)
    THEN [g EXCEPT !.Ac = Ac, !.Arc = Arc, !.stage = "errors", !.exc = "ValueError"]
    ELSE SquareErrors([g EXCEPT !.Ac = Ac, !.Arc = Arc], RelErrors(Ac, Arc))

\* the two clamping assignments; a numpy.float64 (the product of two empty
\* vectors) supports no item assignment
SquareNear0(g, Ar, near0) ==
    IF Ar.nd = 0
    THEN [g EXCEPT !.Ar = Ar, !.near0 = near0, !.stage = "clamp", !.exc = "TypeError"]
    ELSE SquareClamped([g EXCEPT !.Ar = Ar, !.near0 = near0], Clamp(g.A, near0), Clamp(Ar, near0))

SquareProduct(g, mm) ==
    IF ~mm.ok THEN [g EXCEPT !.stage = "matmul", !.exc = "ValueError"]
    ELSE SquareNear0(g, mm.arr, Near0(mm.arr))

\* steps 3 and 4 of the relative-mode checker, from the decoded matrices on
AnalyseSquare(A, Q, R) ==
    SquareProduct([Blank EXCEPT !.A = A, !.Q = Q, !.R = R], MatMul(Q, R))

SquareLoaded(A, R, Q) ==
    IF A.exc # "" THEN [Blank EXCEPT !.stage = "A", !.exc = A.exc]
    ELSE IF R.exc # "" THEN [Blank EXCEPT !.stage = "R", !.exc = R.exc, !.A = A.arr]
    ELSE IF Q.exc # ""
         THEN [Blank EXCEPT !.stage = "Q", !.exc = Q.exc, !.A = A.arr, !.R = R.arr]
    ELSE AnalyseSquare(A.arr, Q.arr, R.arr)

\* the loop body of the relative-mode checker: steps 2 to 4
InstanceSquare(lines, i, n) ==
    SquareLoaded(LoadMatrix(Tokens(SelectLines(lines, "A", i)), n),
                 LoadMatrix(Tokens(SelectLines(lines, "R", i)), n),
                 LoadMatrix(Tokens(SelectLines(lines, "Q", i)), n))

\* the legacy script: errors = np.abs(A_matrix_fp_np - A_reconstructed)/A_matrix_fp_np
LegacyRelErrors(A, Ar) ==
    [nd |-> Max(A.nd, Ar.nd), dtype |-> "float64",
     rows |-> [i \in 1..BDim(NRows(A), NRows(Ar)) |->
                 [j \in 1..BDim(NCols(A), NCols(Ar)) |->
                     RDiv(RAbs(RSub(At(A, i, j), At(Ar, i, j))), At(A, i, j))]]]

\* highest_error = np.max(errors)
LegacyErrors(g, errors) ==
    IF Size(errors) = 0
    THEN [g EXCEPT !.errors = errors, !.stage = "max", !.exc = "ValueError"]
    ELSE [g EXCEPT !.errors = errors, !.stage = "ok", !.highest = NpMax(Flat(errors))]

LegacyProduct(g, mm) ==
    IF ~mm.ok THEN [g EXCEPT !.stage = "matmul", !.exc = "ValueError"]
    ELSE IF ~Compatible(g.A, mm.arr)
         THEN [g EXCEPT !.Ar = mm.arr, !.stage = "errors", !.exc = "ValueError"]
         ELSE LegacyErrors([g EXCEPT !.Ar = mm.arr], LegacyRelErrors(g.A, mm.arr))

\* steps 3 and 4 of the legacy script
AnalyseLegacy(A, Q, R) ==
    LegacyProduct([Blank EXCEPT !.A = A, !.Q = Q, !.R = R], MatMul(Q, R))

LegacyLoaded(A, R, Q) ==
    IF A.exc # "" THEN [Blank EXCEPT !.stage = "A", !.exc = A.exc]
    ELSE IF R.exc # "" THEN [Blank EXCEPT !.stage = "R", !.exc = R.exc, !.A = A.arr]
    ELSE IF Q.exc # ""
         THEN [Blank EXCEPT !.stage = "Q", !.exc = Q.exc, !.A = A.arr, !.R = R.arr]
    ELSE AnalyseLegacy(A.arr, Q.arr, R.arr)

\* the loop body of the legacy script: steps 2 to 4
InstanceLegacy(lines, i, n) ==
    LegacyLoaded(LoadMatrix(Tokens(SelectLines(lines, "A", i)), n),
                 LoadMatrix(Tokens(SelectLines(lines, "R", i)), n),
                 LoadMatrix(Tokens(SelectLines(lines, "Q", i)), n))

\* isLast(mat, line): False at the row numbered array_dimension of a line that
\* starts with mat
IsLast(mat, line, dim) ==
    IF Find(line, mat) # 0 THEN [exc |-> "", v |-> TRUE]
    ELSE LET d == RowDigit(line)
         IN  [exc |-> d.exc, v |-> ~(d.exc = "" /\ d.v = dim)]

\* itertools.takewhile(lambda line: isLast(mat, line), content)
RECURSIVE TakeWhile(_, _, _, _, _)
TakeWhile(lines, mat, dim, k, acc) ==
    IF k > Len(lines) THEN [exc |-> "", lines |-> acc]
    ELSE LET t == IsLast(mat, lines[k], dim)
         IN  IF t.exc # "" THEN [exc |-> t.exc, lines |-> acc]
             ELSE IF ~t.v THEN [exc |-> "", lines |-> acc]
             ELSE TakeWhile(lines, mat, dim, k + 1, Append(acc, lines[k]))

\* [x for x in itertools.takewhile(...) if x[0:x.find(":")] == f"{K}{i}"]
Scan(lines, K, i, dim) ==
    LET t == TakeWhile(lines, Tag(K, i + 1), dim, 1, <<>>)
    IN  [exc |-> t.exc, lines |-> SelectLines(t.lines, K, i)]

\* the last element equal to x goes
RemoveLastEqual(lines, ln) ==
    LET hits == {k \in 1..Len(lines) : lines[k] = ln}
    IN  IF hits = {} THEN lines
        ELSE LET k == CHOOSE h \in hits : \A g \in hits : h >= g
             IN  SubSeq(lines, 1, k - 1) \o SubSeq(lines, k + 1, Len(lines))

\* list.remove(x): the first element equal to x goes
RemoveFirst(lines, ln) ==
    LET hits == {k \in 1..Len(lines) : lines[k] = ln}
    IN  IF hits = {} THEN lines
        ELSE LET k == CHOOSE h \in hits : \A g \in hits : h <= g
             IN  SubSeq(lines, 1, k - 1) \o SubSeq(lines, k + 1, Len(lines))

RECURSIVE RemoveAll(_, _)
RemoveAll(lines, sel) ==
    IF sel = <<>> THEN lines ELSE RemoveAll(RemoveFirst(lines, Head(sel)), Tail(sel))

\* highest_error = np.max(errors); mean_error; sd_error = np.std(errors)
RectErrors(g, errors) ==
    IF Size(errors) = 0
    THEN [g EXCEPT !.errors = errors, !.stage = "max", !.exc = "ValueError"]
    ELSE [g EXCEPT !.errors = errors, !.stage = "ok",
                   !.highest = NpMax(Flat(errors)), !.mean = NpMean(Flat(errors)),
                   !.var = NpVar(Flat(errors))]

RectProduct(g, mm) ==
    IF ~mm.ok THEN [g EXCEPT !.stage = "matmul", !.exc = "ValueError"]
    ELSE IF ~Compatible(g.A, mm.arr)
         THEN [g EXCEPT !.Ar = mm.arr, !.stage = "errors", !.exc = "ValueError"]
         ELSE RectErrors([g EXCEPT !.Ar = mm.arr], AbsErrors(g.A, mm.arr))

\* steps 3 and 4 of the absolute-mode checker
AnalyseRect(A, Q, R) ==
    RectProduct([Blank EXCEPT !.A = A, !.Q = Q, !.R = R], MatMul(Q, R))

RectFail(lines, st, e) == [res |-> [Blank EXCEPT !.stage = st, !.exc = e], rest |-> lines]

\* steps 2.4 to 4; rest is content after step 2.4, which is reached only when
\* the three matrices were decoded
RectLoaded(lines, sA, A, sR, R, sQ, Q) ==
    IF sA.exc # "" THEN RectFail(lines, "A", sA.exc)
    ELSE IF A.exc # "" THEN RectFail(lines, "A", A.exc)
    ELSE IF sR.exc # "" THEN RectFail(lines, "R", sR.exc)
    ELSE IF R.exc # "" THEN RectFail(lines, "R", R.exc)
    ELSE IF sQ.exc # "" THEN RectFail(lines, "Q", sQ.exc)
    ELSE IF Q.exc # "" THEN RectFail(lines, "Q", Q.exc)
    ELSE [res |-> AnalyseRect(A.arr, Q.arr, R.arr),
          rest |-> RemoveAll(RemoveAll(RemoveAll(lines, sA.lines), sQ.lines), sR.lines)]

RectScanned(lines, n, sA, sR, sQ) ==
    RectLoaded(lines, sA, LoadMatrix(Tokens(sA.lines), n), sR, LoadMatrix(Tokens(sR.lines), n),
               sQ, LoadMatrix(Tokens(sQ.lines), n))

\* the loop body of the absolute-mode checker: steps 2 to 4
InstanceRect(lines, i, n, dim) ==
    RectScanned(lines, n, Scan(lines, "A", i, dim), Scan(lines, "R", i, dim),
                Scan(lines, "Q", i, dim))

(***************************************************************************)
(* The capture files the checkers are run on.  A file is written from a    *)
(* sequence of records [kind, idx, row, cells] (one per line, raw integer  *)
(* cells) as  {kind}{idx}:row {row}: c1 c2 ... cN{close}\n  or, without    *)
(* the descriptor,  {kind}{idx}: c1 c2 ... cN{close}\n.  The form of a     *)
(* record tells how its line was written: "ok" as above, "nocolon" with    *)
(* every colon left out, "badcell" with a first cell that is no integer.   *)
(***************************************************************************)
MaxInst == 2
MaxDim == 2

NVals == {0, 1, 2}
Variants == {"square", "rect", "legacy"}
Fmts == [descr : {"none", "row"}, close : {"]", " "}]

RECURSIVE JoinCells(_)
JoinCells(cells) ==
    IF cells = <<>> THEN <<>>
    ELSE IF Len(cells) = 1 THEN Str(cells[1])
    ELSE Str(Head(cells)) \o <<" ">> \o JoinCells(Tail(cells))

WellFormedLine(rec, fmt) ==
    <<rec.kind>> \o Str(rec.idx) \o COLON
        \o (IF fmt.descr = "row" THEN ROW \o Str(rec.row) \o COLON ELSE <<>>)
        \o <<" ">> \o JoinCells(rec.cells) \o <<fmt.close, "\n">>

FormatLine(rec, fmt) ==
    IF rec.form = "nocolon" THEN SelectSeq(WellFormedLine(rec, fmt), LAMBDA c : c # ":")
    ELSE IF rec.form = "badcell"
         THEN <<rec.kind>> \o Str(rec.idx) \o COLON
                  \o (IF fmt.descr = "row" THEN ROW \o Str(rec.row) \o COLON ELSE <<>>)
                  \o <<" ", "x">> \o JoinCells(rec.cells) \o <<fmt.close, "\n">>
    ELSE WellFormedLine(rec, fmt)

FormatFile(recs, fmt) == [k \in 1..Len(recs) |-> FormatLine(recs[k], fmt)]

\* the records of one matrix, and of one instance (A rows, Q rows, R rows)
MatrixRecs(K, idx, rows) ==
    [r \in 1..Len(rows) |-> [kind |-> K, idx |-> idx, row |-> r, cells |-> rows[r], form |-> "ok"]]

InstanceRecs(idx, t) ==
    MatrixRecs("A", idx, t.A) \o MatrixRecs("Q", idx, t.Q) \o MatrixRecs("R", idx, t.R)

RECURSIVE CaptureRecs(_, _)
CaptureRecs(ts, from) ==
    IF ts = <<>> THEN <<>> ELSE InstanceRecs(from, Head(ts)) \o CaptureRecs(Tail(ts), from + 1)

\* sequences of 1..len elements of S
SeqsUpTo(S, len) == UNION {[1..k -> S] : k \in 1..len}

\* k x k identity scaled by 2^n
Identity(k, n) == [r \in 1..k |-> [c \in 1..k |-> IF r = c THEN Pow2(n) ELSE 0]]

IdentCaptures ==
    {[recs |-> CaptureRecs([j \in 1..N |-> [A |-> Identity(k, n), Q |-> Identity(k, n),
                                             R |-> Identity(k, n)]], 0),
      n |-> n, fmt |-> f] : N \in 1..MaxInst, k \in 1..MaxDim, n \in NVals, f \in Fmts}

\* 1x2 instances: Q = (1), R = (r1 r2), A = (a1 a2).  The raw cells are
\* large, tiny and zero, of both signs; with (1 3999) the clamp floor is 2
\* raw units, with (2 3998) an element lies exactly on the floor, with (0 0)
\* the floor is 0
RowR == {<<1, 3999>>, <<-1, 3999>>, <<0, 4000>>, <<0, 0>>, <<2, 3998>>, <<3999, 1>>,
         <<1, 1>>, <<-4000, 0>>}

RowTriples(n) ==
    {[A |-> << <<a1, a2>> >>, Q |-> << <<Pow2(n)>> >>, R |-> <<r>>] :
        r \in RowR, a1 \in {-2, -1, 0, 1, 2, 3999}, a2 \in {0, 1, 3999, 4000}}

\* 2x2 instances: Q the identity or the row swap, R upper triangular,
\* A the exact product or the product with one cell off by one
SquareTriples(n) ==
    {[A |-> IF sw THEN << <<d, r22>>, <<r11, r12>> >> ELSE << <<r11 + d, r12>>, <<0, r22>> >>,
      Q |-> IF sw THEN << <<0, Pow2(n)>>, <<Pow2(n), 0>> >> ELSE Identity(2, n),
      R |-> << <<r11, r12>>, <<0, r22>> >>] :
        sw \in BOOLEAN, d \in {0, 1}, r11 \in {0, 1, 4000}, r12 \in {0, -1}, r22 \in {0, 8000}}

\* the instances of captures with several instances: the absolute errors of
\* an instance are 0, 2 or 4 raw units per cell
SmallTriples(n) ==
    {[A |-> << <<a1, a2>> >>, Q |-> << <<Pow2(n)>> >>, R |-> << <<0, 4>> >>] :
        a1 \in {0, 2}, a2 \in {4, 6, 8}}

NumCaptures ==
    UNION {{[recs |-> CaptureRecs(<<t>>, 0), n |-> n, fmt |-> [descr |-> "row", close |-> "]"]] :
               t \in RowTriples(n) \cup (IF n = 0 THEN {} ELSE SquareTriples(n))} : n \in NVals}
    \cup UNION {{[recs |-> CaptureRecs(ts, 0), n |-> n, fmt |-> [descr |-> "row", close |-> "]"]] :
                    ts \in SeqsUpTo(SmallTriples(n), MaxInst)} : n \in NVals}

\* captures whose structure is off: a well-formed capture of 1x1 matrices with
\* distinct cells, some lines dropped and possibly one line added
BaseRecs(N) ==
    CaptureRecs([j \in 1..N |-> [A |-> << <<3 * j - 2>> >>, Q |-> << <<3 * j - 1>> >>,
                                 R |-> << <<3 * j>> >>]], 0)

\* lines that repeat, letter for letter, the A line and the R line that
\* BaseRecs writes for instance 0
Twins ==
    {[kind |-> "A", idx |-> 0, row |-> 1, cells |-> <<1>>, form |-> "ok"],
     [kind |-> "R", idx |-> 0, row |-> 1, cells |-> <<3>>, form |-> "ok"]}

Extras ==
    {[kind |-> e[1], idx |-> e[2], row |-> 2, cells |-> <<e[3]>>, form |-> "ok"] :
        e \in {<<"A", 10, 7>>, <<"A", 0, 8>>, <<"Q", 0, 9>>, <<"R", 0, 1>>, <<"A", 1, 4>>}}
    \cup Twins

Keep(base, D) == SelectSeq([k \in 1..Len(base) |-> <<k, base[k]>>], LAMBDA p : p[1] \notin D)

DropLines(base, D) == [k \in 1..Len(Keep(base, D)) |-> Keep(base, D)[k][2]]

InsertAt(rs, pos, rec) == SubSeq(rs, 1, pos) \o <<rec>> \o SubSeq(rs, pos + 1, Len(rs))

\* nothing dropped, one matrix dropped, or two matrices of one instance dropped
Drops(base) ==
    {{}} \cup {{k} : k \in 1..Len(base)}
         \cup {D \in SUBSET (1..Len(base)) :
                 Cardinality(D) = 2 /\ \A k1 \in D, k2 \in D : base[k1].idx = base[k2].idx}

WithExtra(rs) == {rs} \cup {InsertAt(rs, pos, e) : pos \in 0..Len(rs), e \in Extras}

StructCaptures ==
    {[recs |-> r, n |-> 1, fmt |-> [descr |-> "row", close |-> " "]] :
        r \in UNION {UNION {WithExtra(DropLines(BaseRecs(N), D)) \ {<<>>} : D \in Drops(BaseRecs(N))} :
                        N \in 1..MaxInst}}

\* captures with one malformed line: a capture of 1x1 matrices, or one
\* instance of A = (2 4)^T, Q the identity, R = (2 4)^T, with one line written
\* without its colons or with a cell that is no integer
TallRecs ==
    CaptureRecs(<<[A |-> << <<2>>, <<4>> >>, Q |-> Identity(2, 1), R |-> << <<2>>, <<4>> >>]>>, 0)

\* two such instances, one after the other
TallPair ==
    CaptureRecs([j \in 1..2 |-> [A |-> << <<2>>, <<4>> >>, Q |-> Identity(2, 1),
                                 R |-> << <<2>>, <<4>> >>]], 0)

Malform(rs, k, form) == [rs EXCEPT ![k].form = form]

MalformedCaptures ==
    UNION {{[recs |-> Malform(rs, k, form), n |-> 1, fmt |-> [descr |-> d, close |-> "]"]] :
               k \in 1..Len(rs), form \in {"nocolon", "badcell"}, d \in {"none", "row"}} :
           rs \in {BaseRecs(N) : N \in 1..MaxInst} \cup {TallRecs, TallPair}}

Captures == IdentCaptures \cup NumCaptures \cup StructCaptures \cup MalformedCaptures

(***************************************************************************)
(* generate_qrd_fixedpoint_constants.py: the fixed-point constants.  A     *)
(* literal of the script is a decimal fraction [neg, num, den]; a scaled   *)
(* value [neg, ip, rem, den] stands for +-(ip + rem/den).  Multiplying a   *)
(* float by a power of two is exact, so the scaled value is the one the    *)
(* script computes before int() cuts it.                                   *)
(***************************************************************************)
MaxIntBits == 4
MaxFrac == 16

\* k = 0.607252956441381, cut to its first nine decimals
k_cordic == [neg |-> FALSE, num |-> 607252956, den |-> 1000000000]
\* increment = 0.11
increment == [neg |-> FALSE, num |-> 11, den |-> 100]
\* lowerBoundary_P = 0.00005
lowerBoundary_P == [neg |-> FALSE, num |-> 5, den |-> 100000]
\* lowerBoundary_N = -0.00005
lowerBoundary_N == [neg |-> TRUE, num |-> 5, den |-> 100000]

\* h * 2
Double(h) ==
    [neg |-> h.neg, ip |-> 2 * h.ip + (2 * h.rem) \div h.den, rem |-> (2 * h.rem) % h.den,
     den |-> h.den]

RECURSIVE ScaleBy(_, _)
ScaleBy(h, e) == IF e = 0 THEN h ELSE ScaleBy(Double(h), e - 1)

\* v * (2 ** e)
Scale(v, e) ==
    ScaleBy([neg |-> v.neg, ip |-> v.num \div v.den, rem |-> v.num % v.den, den |-> v.den], e)

\* int(x): the fraction is cut, towards zero
IntOf(h) == IF h.neg THEN -h.ip ELSE h.ip

\* x << e
ShiftLeft(x, e) == x * Pow2(e)

\* raw * (2.0 ** -n)
Actual(raw, e) == RNorm(raw, Pow2(e))

\* the d digits after the point of rem/den and what is left of it
RECURSIVE FracDigits(_, _, _, _)
FracDigits(rem, den, d, acc) ==
    IF d = 0 THEN [digits |-> acc, rem |-> rem]
    ELSE FracDigits((rem * 10) % den, den, d - 1, Append(acc, (rem * 10) \div den))

IncrCarry(r) == [carry |-> r.carry, digits |-> Append(r.digits, 0)]

\* one unit more in the last place of a sequence of digits
RECURSIVE Incr(_)
Incr(ds) ==
    IF ds = <<>> THEN [carry |-> 1, digits |-> <<>>]
    ELSE IF ds[Len(ds)] < 9 THEN [carry |-> 0, digits |-> [ds EXCEPT ![Len(ds)] = @ + 1]]
    ELSE IncrCarry(Incr(SubSeq(ds, 1, Len(ds) - 1)))

\* round half to even on the exact value
RoundsUp(f, den) ==
    \/ 2 * f.rem > den
    \/ 2 * f.rem = den /\ f.digits # <<>> /\ f.digits[Len(f.digits)] % 2 = 1

FixedText(neg, ip, r) ==
    (IF neg THEN <<"-">> ELSE <<>>) \o NatStr(ip + r.carry) \o <<".">>
        \o [j \in 1..Len(r.digits) |-> Digits[r.digits[j] + 1]]

FixedRounded(neg, ip, f, den) ==
    FixedText(neg, ip, IF RoundsUp(f, den) THEN Incr(f.digits) ELSE [carry |-> 0, digits |-> f.digits])

\* f"{x:.{d}f}" of a float, d >= 1
FormatFixed(x, d) ==
    IF x = NaN THEN <<"n", "a", "n">>
    ELSE IF x = Inf THEN <<"i", "n", "f">>
    ELSE IF x = NegInf THEN <<"-", "i", "n", "f">>
    ELSE FixedRounded(x[1] < 0, AbsInt(x[1]) \div x[2],
                      FracDigits(AbsInt(x[1]) % x[2], x[2], d, <<>>), x[2])

\* lines 21 to 39
Constants(e) ==
    [fp_one |-> ShiftLeft(1, e),
     fp_minus_one |-> -ShiftLeft(1, e),
     k_fp |-> IntOf(Scale(k_cordic, e)),
     k_actual |-> Actual(IntOf(Scale(k_cordic, e)), e),
     increment_fp |-> IntOf(Scale(increment, e)),
     increment_actual |-> Actual(IntOf(Scale(increment, e)), e),
     lowerBoundary_P_fp |-> IntOf(Scale(lowerBoundary_P, e)),
     lowerBoundary_P_actual |-> Actual(IntOf(Scale(lowerBoundary_P, e)), e),
     lowerBoundary_N_fp |-> IntOf(Scale(lowerBoundary_N, e)),
     lowerBoundary_N_actual |-> Actual(IntOf(Scale(lowerBoundary_N, e)), e)]

\* one line of the output: the name, the integer and the value in the comment
OutLine(name, v, comment) == [name |-> name, value |-> Str(v), comment |-> comment]

\* the f-string of lines 41 to 60, without its fixed text
OutputText(mm, e, c) ==
    <<OutLine("m", mm, <<>>),
      OutLine("n", e, <<>>),
      OutLine("fixed_point_one", c.fp_one, <<>>),
      OutLine("fixed_point_minus_one", c.fp_minus_one, <<>>),
      OutLine("nearZeroBoundaryP", c.lowerBoundary_P_fp, FormatFixed(c.lowerBoundary_P_actual, 10)),
      OutLine("nearZeroBoundaryN", c.lowerBoundary_N_fp, FormatFixed(c.lowerBoundary_N_actual, 10)),
      OutLine("fp_increment", c.increment_fp, FormatFixed(c.increment_actual, 10)),
      OutLine("k_CORDIC_constant", c.k_fp, FormatFixed(c.k_actual, 10))>>

(***************************************************************************)
(* The sweep drivers: generate_csv_from_experiments.py (3_..., "sweep3")   *)
(* and generate_csv_from_accuracy_experiments.py (5_..., "sweep5").  The   *)
(* directory the driver lists is a sequence of entries [name, k, i, m, n,  *)
(* recs, fmt] in listing order: the name of a capture file, the values it  *)
(* was formatted from and the records and format its text was written      *)
(* from.                                                                   *)
(***************************************************************************)
\* directory_string of sweep3
DIR3 == <<"r", "e", "s", "u", "l", "t", "s", "/">>
\* directory_string of sweep5
DIR5 == <<"a", "c", "c", "u", "r", "a", "c", "y", "_", "r", "e", "s", "u", "l", "t", "s", "/">>
CAPTURE_K == <<"c", "a", "p", "t", "u", "r", "e", "_", "k">>
CAPTURE_K16 == <<"c", "a", "p", "t", "u", "r", "e", "_", "k", "1", "6">>
UNDERSCORE == <<"_">>
UNDER_I == <<"_", "i">>
I16 == <<"i", "1", "6">>
UNDER_I16_UNDER == <<"_", "i", "1", "6", "_">>
UNDER_Q == <<"_", "Q">>
LETTER_P == <<"p">>
LETTER_Q == <<"Q">>
DOT == <<".">>
DOT_TXT == <<".", "t", "x", "t">>
COMMA == <<",">>
\* "k\\n,": the letter k, a backslash, the letter n and a comma
TOP_K == <<"k", "\\", "n", ",">>
TOP_I == <<"i", "\\", "n", ",">>
CSV_K_WORST ==
    <<"e", "x", "p", "e", "r", "i", "m", "e", "n", "t", "_", "r", "e", "s", "u", "l", "t", "s",
      "_", "k", "_", "s", "c", "a", "l", "i", "n", "g", "_", "l", "a", "r", "g", "e", "s", "t",
      "_", "e", "r", "r", "o", "r", ".", "c", "s", "v">>
CSV_K_AVERAGE ==
    <<"e", "x", "p", "e", "r", "i", "m", "e", "n", "t", "_", "r", "e", "s", "u", "l", "t", "s",
      "_", "k", "_", "s", "c", "a", "l", "i", "n", "g", "_", "a", "v", "e", "r", "a", "g", "e",
      "_", "e", "r", "r", "o", "r", ".", "c", "s", "v">>
CSV_I_WORST ==
    <<"e", "x", "p", "e", "r", "i", "m", "e", "n", "t", "_", "r", "e", "s", "u", "l", "t", "s",
      "_", "C", "O", "R", "D", "I", "C", "_", "i", "t", "e", "r", "s", "_", "l", "a", "r", "g",
      "e", "s", "t", "_", "e", "r", "r", "o", "r", ".", "c", "s", "v">>
CSV_I_AVERAGE ==
    <<"e", "x", "p", "e", "r", "i", "m", "e", "n", "t", "_", "r", "e", "s", "u", "l", "t", "s",
      "_", "C", "O", "R", "D", "I", "C", "_", "i", "t", "e", "r", "s", "_", "a", "v", "e", "r",
      "a", "g", "e", "_", "e", "r", "r", "o", "r", ".", "c", "s", "v">>
\* the file a checker run from the command line reads
CLI_FILE == <<"c", "a", "p", "t", "u", "r", "e", ".", "t", "x", "t">>

\* str.find(pat, start)
FindFrom(s, pat, start) ==
    LET hits == {k \in start..Len(s) : MatchAt(s, pat, k)}
    IN  IF hits = {} THEN -1 ELSE CHOOSE k \in hits : \A h \in hits : k <= h

\* pat in s
Contains(s, pat) == Find(s, pat) >= 0

\* int(f[f.find("_")+2:f.find("_",f.find("_")+2)])
KOfName(f) ==
    PyInt(Slice(f, Find(f, UNDERSCORE) + 2, FindFrom(f, UNDERSCORE, Find(f, UNDERSCORE) + 2)))

\* int(f[f.rfind("p")+1:f.rfind(".")])
NOfName(f) == PyInt(Slice(f, RFind(f, LETTER_P) + 1, RFind(f, DOT)))

\* int(f[f.rfind("Q")+1:f.rfind("p")])
MOfName(f) == PyInt(Slice(f, RFind(f, LETTER_Q) + 1, RFind(f, LETTER_P)))

\* int(f[f.find("_i")+2:f.find("_",f.find("_i")+2)])
IOfName(f) ==
    PyInt(Slice(f, Find(f, UNDER_I) + 2, FindFrom(f, UNDERSCORE, Find(f, UNDER_I) + 2)))

\* list(dict.fromkeys(xs)): the first occurrence of every value, in order
RECURSIVE UniqueFrom(_, _)
UniqueFrom(xs, acc) ==
    IF xs = <<>> THEN acc
    ELSE UniqueFrom(Tail(xs), IF \E j \in 1..Len(acc) : acc[j] = Head(xs) THEN acc
                              ELSE Append(acc, Head(xs)))

Unique(xs) == UniqueFrom(xs, <<>>)

RECURSIVE Insert(_, _)
Insert(x, s) ==
    IF s = <<>> THEN <<x>>
    ELSE IF x <= Head(s) THEN <<x>> \o s
    ELSE <<Head(s)>> \o Insert(x, Tail(s))

\* list.sort() of integers
RECURSIVE Sort(_)
Sort(xs) == IF xs = <<>> THEN <<>> ELSE Insert(Head(xs), Sort(Tail(xs)))

\* the values as they are listed, without the sort
UniqueUnsorted(xs) == Unique(xs)

\* x = list(dict.fromkeys(...)); x.sort()
UniqueSorted(xs) == Sort(Unique(xs))

\* sep.join(strs)
RECURSIVE JoinWith(_, _)
JoinWith(sep, strs) ==
    IF strs = <<>> THEN <<>>
    ELSE IF Len(strs) = 1 THEN strs[1]
    ELSE Head(strs) \o sep \o JoinWith(sep, Tail(strs))

\* top_line = "k\\n,"+",".join([str(n) for n in n_values])
TopLine(label, ns) == label \o JoinWith(COMMA, [j \in 1..Len(ns) |-> Str(ns[j])])

\* f"capture_k{k}_i{i}_Q{m}p{n}.txt"
CaptureName(kk, ii, mm, nn) ==
    CAPTURE_K \o Str(kk) \o UNDER_I \o Str(ii) \o UNDER_Q \o Str(mm) \o LETTER_P \o Str(nn)
        \o DOT_TXT

DirectoryString(scr) == IF scr = "sweep3" THEN DIR3 ELSE DIR5

\* the CORDIC iterations of the files of the first experiment: i12, i16
BaseIters(scr) == IF scr = "sweep3" THEN 12 ELSE 16

\* file_name of the first experiment (the swept value p is k) and of the
\* second (p is i, k is 16)
FileName(scr, ex, p, mm, nn) ==
    DirectoryString(scr)
        \o (IF ex = 1 THEN CaptureName(p, BaseIters(scr), mm, nn) ELSE CaptureName(16, p, mm, nn))

\* result_files_names: the names the listing keeps
Listed(scr, ex, dir) ==
    IF scr = "sweep3" THEN SelectSeq(dir, LAMBDA e : Contains(e.name, CAPTURE_K))
    ELSE IF ex = 1
    THEN SelectSeq(dir, LAMBDA e : Contains(e.name, CAPTURE_K) /\ Contains(e.name, I16))
    ELSE SelectSeq(dir, LAMBDA e : Contains(e.name, CAPTURE_K16)
                                      /\ ~Contains(e.name, UNDER_I16_UNDER))

\* the values parsed from the names, unique and sorted; a name int() refuses
\* raises ValueError
ParsedK(fs) == [j \in 1..Len(fs) |-> KOfName(fs[j].name)]
ParsedN(fs) == [j \in 1..Len(fs) |-> NOfName(fs[j].name)]
ParsedM(fs) == [j \in 1..Len(fs) |-> MOfName(fs[j].name)]
ParsedI(fs) == [j \in 1..Len(fs) |-> IOfName(fs[j].name)]

AllOk(ps) == \A j \in 1..Len(ps) : ps[j].ok

Values(ps) == UniqueSorted([j \in 1..Len(ps) |-> ps[j].v])

\* the CSV files of an experiment: largest error, then average error
CsvName(scr, ex, which) ==
    DirectoryString(scr)
        \o (IF ex = 1 THEN (IF which = "worst" THEN CSV_K_WORST ELSE CSV_K_AVERAGE)
            ELSE (IF which = "worst" THEN CSV_I_WORST ELSE CSV_I_AVERAGE))

\* f"{k},"
RowStart(p) == Str(p) \o COMMA

\* f"{worst:.20f},"
MetricCell(x) == FormatFixed(x, 20) \o COMMA

\* for line in contents: f.write(f"{line}\n")
Written(lines) == [j \in 1..Len(lines) |-> lines[j] \o <<"\n">>]

\* worst,average = ...: the number of names on the left of the call
UnpackTargets(scr) == IF scr = "sweep3" THEN 2 ELSE 2

\* an exception that leaves runErrorChecker is caught and the file skipped
ExceptionSkipsFile(at) == at

\* an exception that leaves runErrorChecker is not caught: the driver ends
Uncaught(at) == "aborted"

(***************************************************************************)
(* The directories the drivers are run on: capture files of k in {4, 16}   *)
(* at the base iteration count and of k = 16 at 8 iterations, each for     *)
(* n in {1, 2}; file number f holds one instance A = (8 8), Q = (2^n),     *)
(* R = (8-f 8), so that no two files give the same metrics and every       *)
(* metric is a multiple of a power of two.  One file may be missing or     *)
(* hold a cell that is no integer, and the listing order may be reversed.  *)
(***************************************************************************)
Sweeps == {"sweep3", "sweep5"}

GridPoints(scr) ==
    <<[k |-> 4, i |-> BaseIters(scr), n |-> 1], [k |-> 4, i |-> BaseIters(scr), n |-> 2],
      [k |-> 16, i |-> BaseIters(scr), n |-> 1], [k |-> 16, i |-> BaseIters(scr), n |-> 2],
      [k |-> 16, i |-> 8, n |-> 1], [k |-> 16, i |-> 8, n |-> 2]>>

EntryRecs(f, nn) ==
    CaptureRecs(<<[A |-> << <<8, 8>> >>, Q |-> << <<Pow2(nn)>> >>, R |-> << <<8 - f, 8>> >>]>>, 0)

Entry(scr, f, bad) ==
    [name |-> CaptureName(GridPoints(scr)[f].k, GridPoints(scr)[f].i, 3, GridPoints(scr)[f].n),
     k |-> GridPoints(scr)[f].k, i |-> GridPoints(scr)[f].i, m |-> 3, n |-> GridPoints(scr)[f].n,
     recs |-> IF bad THEN Malform(EntryRecs(f, GridPoints(scr)[f].n), 3, "badcell")
              ELSE EntryRecs(f, GridPoints(scr)[f].n),
     fmt |-> [descr |-> "row", close |-> "]"]]

Reverse(s) == [j \in 1..Len(s) |-> s[Len(s) + 1 - j]]

\* the directory with file number miss missing and file number bad malformed
\* (0 for none)
DirectoryOf(scr, miss, bad) ==
    SelectSeq([f \in 1..6 |-> Entry(scr, f, f = bad)],
              LAMBDA e : miss = 0 \/ e # Entry(scr, miss, miss = bad))

Directories(scr) ==
    {<<>>}
    \cup {DirectoryOf(scr, miss, 0) : miss \in 0..6}
    \cup {DirectoryOf(scr, 0, bad) : bad \in 1..6}
    \cup {Reverse(DirectoryOf(scr, miss, 0)) : miss \in 0..6}
    \cup {Reverse(DirectoryOf(scr, 0, bad)) : bad \in 1..6}

(***************************************************************************)
(* generate_csv_from_hardware_experiments.py: processUtilisationReport.    *)
(* A text is a sequence of characters, a file read with readlines a        *)
(* sequence of lines; clock_period is a float with one decimal, written    *)
(* <<integer part, tenths>>.                                               *)
(***************************************************************************)
VIOLATED == <<"V", "I", "O", "L", "A", "T", "E", "D">>

HIERARCHY ==
    <<"1", ".", " ", "U", "t", "i", "l", "i", "z", "a", "t", "i", "o", "n", " ", "b",
      "y", " ", "H", "i", "e", "r", "a", "r", "c", "h", "y", "\n">>

\* "|    ": the rows of nested instances
NESTED == <<"|", " ", " ", " ", " ">>

\* the instances whose rows are returned, in the order of the return statement
RowNames ==
    <<<<"T", "o", "p", "_", "v", "i", "v", "a", "d", "o", "2", "0", "2", "3">>,
      <<"i", "_", "b", "o", "u", "n", "d", "a", "r", "y", "C", "e", "l", "l", "s", "_", "0">>,
      <<"i", "_", "i", "n", "n", "e", "r", "C", "e", "l", "l", "s", "_", "q", "_", "0">>,
      <<"i", "_", "i", "n", "n", "e", "r", "C", "e", "l", "l", "s", "_", "r", "_", "0">>,
      <<"i", "_", "s", "o", "u", "r", "c", "e">>,
      <<"i", "_", "f", "i", "l", "t", "e", "r", "s", "_", "q", "_", "0">>,
      <<"i", "_", "f", "i", "l", "t", "e", "r", "s", "_", "r", "_", "b", "o", "u", "n",
        "d", "a", "r", "y", "_", "0">>>>

\* the fields of a line between the separators c, as str.split(c) and a CSV
\* reader cut them
RECURSIVE SplitOn(_, _, _, _)
SplitOn(s, c, cur, acc) ==
    IF s = <<>> THEN Append(acc, cur)
    ELSE IF Head(s) = c THEN SplitOn(Tail(s), c, <<>>, Append(acc, cur))
    ELSE SplitOn(Tail(s), c, Append(cur, Head(s)), acc)

\* str.strip()
Strip(s) == RStrip(LStrip(s))

\* str.replace(a, b) for single characters
Replace(s, a, b) == [j \in 1..Len(s) |-> IF s[j] = a THEN b ELSE s[j]]

\* str(clock_period)
FloatStr(c) == Str(c[1]) \o <<".">> \o Str(c[2])

\* "None" if loop_unroll_factor == 1 else "All" if loop_unroll_factor == 1000
\* else loop_unroll_factor
UnrollName(f) == IF f = 1 THEN <<"N", "o", "n", "e">> ELSE IF f = 1000 THEN <<"A", "l", "l">> ELSE Str(f)

\* f"build_k{k}_Q{m}p{n}_i{i}_{fpga_part}_clk{clock}_unroll{unrollName}"
generateFilePrefix(a) ==
    <<"b", "u", "i", "l", "d", "_", "k">> \o Str(a.k) \o <<"_", "Q">> \o Str(a.m) \o <<"p">> \o Str(a.n)
        \o <<"_", "i">> \o Str(a.i) \o <<"_">> \o a.fpga_part \o <<"_", "c", "l", "k">>
        \o Replace(FloatStr(a.clock_period), ".", "p") \o <<"_", "u", "n", "r", "o", "l", "l">>
        \o UnrollName(a.loop_unroll_factor)

\* filePath_util, filePath_timing and the name of the CSV file written
ReportPath(a, suffix) == a.directory_string \o <<"/">> \o generateFilePrefix(a) \o suffix

filePath_util(a) == ReportPath(a, <<"_", "u", "t", "i", "l", "i", "s", "a", "t", "i", "o", "n", ".", "r", "p", "t">>)

filePath_timing(a) == ReportPath(a, <<"_", "t", "i", "m", "i", "n", "g", ".", "r", "p", "t">>)

filePath_csv(a) == ReportPath(a, <<"_", "u", "t", "i", "l", "i", "s", "a", "t", "i", "o", "n", ".", "c", "s", "v">>)

\* if(contents.find("VIOLATED")): timing_violations=True -- an int is true
\* unless it is 0
TimingViolations(text) == Find(text, VIOLATED) # 0

\* content.index('1. Utilization by Hierarchy\n') + 6, as a 0-based index
StartIndex(lines) ==
    IF \A j \in 1..Len(lines) : lines[j] # HIERARCHY THEN [exc |-> "ValueError", v |-> 0]
    ELSE [exc |-> "",
          v |-> (CHOOSE j \in 1..Len(lines) :
                    lines[j] = HIERARCHY /\ \A h \in 1..(j - 1) : lines[h] # HIERARCHY) - 1 + 6]

\* [entry.strip() for entry in line[1:-2].split("|")]
SplitLine(line) ==
    [j \in 1..Len(SplitOn(Slice(line, 1, -2), "|", <<>>, <<>>)) |->
        Strip(SplitOn(Slice(line, 1, -2), "|", <<>>, <<>>)[j])]

\* headings = [... content[start_index] ...]: IndexError past the last line
Headings(lines, start) ==
    IF start >= Len(lines) THEN [exc |-> "IndexError", v |-> <<>>]
    ELSE [exc |-> "", v |-> SplitLine(lines[start + 1])]

\* resource_table: content[start_index:-1] without the rows of nested
\* instances and without the rulers
ResourceTable(lines, start) ==
    SelectSeq(Slice(lines, start, -1), LAMBDA line : Find(line, NESTED) # 0 /\ line[1] # "+")

\* what is written to the CSV file: the headings, then every row of the table
OutputLines(hs, table) ==
    <<JoinWith(<<",">>, hs) \o <<"\n">>>>
        \o [j \in 1..Len(table) |-> JoinWith(<<",">>, SplitLine(table[j])) \o <<"\n">>]

\* top, boundaryCell, ...: the last row of that name, "" when there is none
RECURSIVE RowNamed(_, _)
RowNamed(table, name) ==
    IF table = <<>> THEN <<>>
    ELSE IF SplitLine(table[Len(table)])[1] = name THEN SplitLine(table[Len(table)])
    ELSE RowNamed(SubSeq(table, 1, Len(table) - 1), name)

\* return timing_violations, headings, top, boundaryCell, innerCell_q,
\* innerCell_r, source, filter_q, filter_r
ReturnedReport(tv, hs, table) ==
    [timing_violations |-> tv, headings |-> hs,
     rows |-> [j \in 1..Len(RowNames) |-> RowNamed(table, RowNames[j])]]

\* the calls made of processUtilisationReport: the arguments
ReportArgs ==
    {[fpga_part |-> <<"Z", "y", "n", "c">>, clock_period |-> c, loop_unroll_factor |-> u, m |-> 3, n |-> 19,
      k |-> 4, i |-> 16, directory_string |-> <<"r", "e", "p", "o", "r", "t", "s">>] :
        c \in {<<5, 0>>, <<2, 5>>}, u \in {1, 2, 1000}}

\* the timing reports: a violation at the very start, in the middle, at the
\* end; none; none and the word cut short; an empty report
TimingReports ==
    {<<"V", "I", "O", "L", "A", "T", "E", "D", "\n", "S", "l", "a", "c", "k", "\n">>,
     <<"S", "l", "a", "c", "k", " ", "(", "V", "I", "O", "L", "A", "T", "E", "D", ")",
       " ", ":", " ", "-", "1", "\n">>,
     <<"S", "l", "a", "c", "k", "\n", "V", "I", "O", "L", "A", "T", "E", "D">>,
     <<"S", "l", "a", "c", "k", " ", "(", "M", "E", "T", ")", " ", ":", " ", "1", "\n">>,
     <<"S", "l", "a", "c", "k", " ", "(", "V", "I", "O", "L", "A", "T", "E", "\n">>,
     <<>>}

\* the utilisation reports: a table after the table of contents; a table of
\* one instance; no table of contents; a report cut off after the title
UtilisationReports ==
    {<<<<"T", "a", "b", "l", "e", " ", "o", "f", " ", "C", "o", "n", "t", "e", "n", "t",
         "s", "\n">>,
       <<"1", ".", " ", "U", "t", "i", "l", "i", "z", "a", "t", "i", "o", "n", " ", "b",
         "y", " ", "H", "i", "e", "r", "a", "r", "c", "h", "y", "\n">>,
       <<"\n">>,
       <<"1", ".", " ", "U", "t", "i", "l", "i", "z", "a", "t", "i", "o", "n", " ", "b",
         "y", " ", "H", "i", "e", "r", "a", "r", "c", "h", "y", "\n">>,
       <<"-", "-", "-", "\n">>,
       <<"\n">>,
       <<"+", "-", "-", "+", "-", "-", "+", "\n">>,
       <<"|", " ", "I", "n", "s", "t", "a", "n", "c", "e", " ", "|", " ", "L", "U", "T",
         "s", " ", "|", "\n">>,
       <<"+", "-", "-", "+", "-", "-", "+", "\n">>,
       <<"|", " ", "T", "o", "p", "_", "v", "i", "v", "a", "d", "o", "2", "0", "2", "3",
         " ", "|", " ", "9", " ", "|", "\n">>,
       <<"|", " ", " ", " ", "i", "_", "s", "o", "u", "r", "c", "e", " ", "|", " ", "1",
         " ", "|", "\n">>,
       <<"|", " ", " ", " ", " ", " ", "(", "i", "_", "s", "o", "u", "r", "c", "e", ")",
         " ", "|", " ", "1", " ", "|", "\n">>,
       <<"|", " ", " ", " ", "i", "_", "b", "o", "u", "n", "d", "a", "r", "y", "C", "e",
         "l", "l", "s", "_", "0", " ", "|", " ", "8", " ", "|", "\n">>,
       <<"+", "-", "-", "+", "-", "-", "+", "\n">>,
       <<"\n">>>>,
     <<<<"1", ".", " ", "U", "t", "i", "l", "i", "z", "a", "t", "i", "o", "n", " ", "b",
         "y", " ", "H", "i", "e", "r", "a", "r", "c", "h", "y", "\n">>,
       <<"\n">>,
       <<"1", ".", " ", "U", "t", "i", "l", "i", "z", "a", "t", "i", "o", "n", " ", "b",
         "y", " ", "H", "i", "e", "r", "a", "r", "c", "h", "y", "\n">>,
       <<"-", "-", "-", "\n">>,
       <<"\n">>,
       <<"+", "-", "-", "+", "\n">>,
       <<"|", " ", "I", "n", "s", "t", "a", "n", "c", "e", " ", "|", "\n">>,
       <<"+", "-", "-", "+", "\n">>,
       <<"|", " ", "T", "o", "p", "_", "v", "i", "v", "a", "d", "o", "2", "0", "2", "3",
         " ", "|", "\n">>,
       <<"+", "-", "-", "+", "\n">>>>,
     <<<<"U", "t", "i", "l", "i", "z", "a", "t", "i", "o", "n", "\n">>,
       <<"+", "-", "-", "+", "\n">>,
       <<"|", " ", "I", "n", "s", "t", "a", "n", "c", "e", " ", "|", "\n">>,
       <<"+", "-", "-", "+", "\n">>>>,
     <<<<"1", ".", " ", "U", "t", "i", "l", "i", "z", "a", "t", "i", "o", "n", " ", "b",
         "y", " ", "H", "i", "e", "r", "a", "r", "c", "h", "y", "\n">>,
       <<"\n">>,
       <<"1", ".", " ", "U", "t", "i", "l", "i", "z", "a", "t", "i", "o", "n", " ", "b",
         "y", " ", "H", "i", "e", "r", "a", "r", "c", "h", "y", "\n">>,
       <<"-", "-", "-", "\n">>>>}

(***************************************************************************)
(* The run of runErrorChecker(m, n, input_file_name, suppress=True)        *)
(***************************************************************************)
VARIABLES
    variant,            \* which checker runs: "square" (3_.../scripts), "rect"
                        \* (5_.../scripts) or "legacy" (qrdSystolicArrayErrorChecker.py)
    m, n,               \* the Qm.n arguments
    recs,               \* the records the file was written from (not read by the checker)
    file,               \* the text of the capture file
    pc,                 \* runErrorChecker: "init", "open", "read", "loop", "done",
                        \* "error"; generate_constants: "args", "computed", "printed"
    exc,                \* the exception that ended the run, "" for none
    content,            \* content = file.readlines(); the rect checker shrinks it
    num_arrays,
    array_dimension,    \* rect only
    i,                  \* the loop variable
    visited,            \* the values i has taken in the loop body
    inst,               \* the locals of the last pass of the loop body
    highest_errors, mean_errors,
    sd_errors,          \* rect only: the per-instance arrays np.abs(errors)
    ret,                \* the returned tuple; its third value is the square of the
                        \* returned standard deviation
    script,             \* the script that was started: "error_checker" (a checker
                        \* run from the command line), "generate_constants", "sweep3"
                        \* or "sweep5"
    handles,            \* the files that are open
    consts,             \* generate_constants: the values computed
    output,             \* generate_constants: the text printed
    directory,          \* sweep drivers: the files of the directory, in listing order
    dpc,                \* sweep drivers: "start", "row", "cell", "running", "worst_open",
                        \* "average", "average_open", "second", "finished", "aborted"
    experiment,         \* sweep drivers: 1 (k is swept) or 2 (i is swept)
    k_values, n_values, i_values, top_line,
    csv_file_worst_contents, csv_file_average_contents,
    csv_row_worst_case, csv_row_average_case,
    ki, ni,             \* the positions of the two loops in their lists
    input_file_name,    \* the file runErrorChecker is called on
    disk,               \* the files written, in the order of writing
    calls,              \* the calls of runErrorChecker made and what each returned
    suppress,           \* the suppress argument (args.suppress in the legacy script)
    stdout,             \* what was printed: one item [head, i, val] per print call
                        \* that prints something, val the values printed
    previous,           \* the outcome of the run made before this one on the same
                        \* file with another m, <<>> when this is the first run
    args,               \* processUtilisationReport: the arguments of the call
    reports,            \* the texts of the utilisation and of the timing report
    rpc,                \* processUtilisationReport: "call", "util_open", "util_read",
                        \* "timing_open", "timing_read", "parsed", "csv_open",
                        \* "returned", "raised"
    rexc,               \* the exception that ended the call, "" for none
    content_util,       \* the local content: the lines of the utilisation report
    contents,           \* the text of the timing report
    timing_violations,
    headings,
    resource_table,
    written,            \* the CSV file written: its name and its lines
    returned            \* <<the returned tuple>>, <<>> before the return

checkerVars == <<variant, m, n, recs, file, pc, exc, content, num_arrays, array_dimension, i,
                 visited, inst, highest_errors, mean_errors, sd_errors, ret>>

driverVars == <<directory, dpc, experiment, k_values, n_values, i_values, top_line,
                csv_file_worst_contents, csv_file_average_contents, csv_row_worst_case,
                csv_row_average_case, ki, ni, input_file_name, disk, calls>>

\* the state of the script that is not runErrorChecker's
callerVars == <<script, consts, output, driverVars>>

\* the console
consoleVars == <<suppress, stdout>>

\* the state of a call of processUtilisationReport
reportVars == <<args, reports, rpc, rexc, content_util, contents, timing_violations, headings,
                resource_table, written, returned>>

vars == <<checkerVars, handles, callerVars, consoleVars, previous, reportVars>>

\* no call of a checker has been made
NoCall ==
    /\ exc = ""
    /\ content = <<>>
    /\ num_arrays = 0
    /\ array_dimension = 0
    /\ i = 0
    /\ visited = <<>>
    /\ inst = Blank
    /\ highest_errors = <<>>
    /\ mean_errors = <<>>
    /\ sd_errors = <<>>
    /\ ret = <<>>
    /\ handles = {}

\* the lists and rows of a sweep driver are not set
NoLists ==
    /\ experiment = 0
    /\ k_values = <<>>
    /\ n_values = <<>>
    /\ i_values = <<>>
    /\ top_line = <<>>
    /\ csv_file_worst_contents = <<>>
    /\ csv_file_average_contents = <<>>
    /\ csv_row_worst_case = <<>>
    /\ csv_row_average_case = <<>>
    /\ ki = 0
    /\ ni = 0
    /\ disk = <<>>
    /\ calls = <<>>

\* no sweep driver runs
NoSweep ==
    /\ directory = <<>>
    /\ dpc = "none"
    /\ NoLists

\* the locals of processUtilisationReport before the call assigns them
BlankReport ==
    /\ rexc = ""
    /\ content_util = <<>>
    /\ contents = <<>>
    /\ timing_violations = FALSE
    /\ headings = <<>>
    /\ resource_table = <<>>
    /\ written = <<>>
    /\ returned = <<>>

\* no call of processUtilisationReport is made
NoReport ==
    /\ args = <<>>
    /\ reports = <<>>
    /\ rpc = "none"
    /\ BlankReport

\* a call of processUtilisationReport on the two reports of one build
InitReport ==
    /\ suppress = TRUE
    /\ stdout = <<>>
    /\ previous = <<>>
    /\ script = "utilisation_report"
    /\ variant = ""
    /\ m = 0
    /\ n = 0
    /\ recs = <<>>
    /\ file = <<>>
    /\ pc = "idle"
    /\ NoCall
    /\ consts = <<>>
    /\ output = <<>>
    /\ NoSweep
    /\ input_file_name = <<>>
    /\ args \in ReportArgs
    /\ \E u \in UtilisationReports, t \in TimingReports :
          reports = [utilisation |-> u, timing |-> t]
    /\ rpc = "call"
    /\ BlankReport

\* a checker started from the command line with -m 3 -n n on a capture file
InitChecker ==
    /\ NoReport
    /\ suppress \in BOOLEAN
    /\ stdout = <<>>
    /\ previous = <<>>
    /\ script = "error_checker"
    /\ variant \in Variants
    /\ m = 3
    /\ \E c \in Captures :
          /\ recs = c.recs
          /\ n = c.n
          /\ file = FormatFile(c.recs, c.fmt)
    /\ pc = "init"
    /\ NoCall
    /\ consts = <<>>
    /\ output = <<>>
    /\ NoSweep
    /\ input_file_name = CLI_FILE

\* python generate_qrd_fixedpoint_constants.py -m m -n n
InitGenerator ==
    /\ NoReport
    /\ suppress = TRUE
    /\ stdout = <<>>
    /\ previous = <<>>
    /\ script = "generate_constants"
    /\ variant = ""
    /\ m \in 1..MaxIntBits
    /\ n \in 0..MaxFrac
    /\ recs = <<>>
    /\ file = <<>>
    /\ pc = "args"
    /\ NoCall
    /\ consts = <<>>
    /\ output = <<>>
    /\ NoSweep
    /\ input_file_name = <<>>

\* a sweep driver started in a directory
InitSweep ==
    /\ NoReport
    /\ suppress = TRUE
    /\ stdout = <<>>
    /\ previous = <<>>
    /\ script \in Sweeps
    /\ directory \in Directories(script)
    /\ variant = ""
    /\ m = 0
    /\ n = 0
    /\ recs = <<>>
    /\ file = <<>>
    /\ pc = "idle"
    /\ NoCall
    /\ consts = <<>>
    /\ output = <<>>
    /\ dpc = "start"
    /\ NoLists
    /\ input_file_name = <<>>

Init == InitChecker \/ InitGenerator \/ InitSweep \/ InitReport

\* the file object the with statement holds is closed when its block is left
WithExitKeepsOpen(hs, f) == hs

WithExit(hs, f) == hs \ {f}

\* an exception leaves runErrorChecker
Raise(e) == pc' = "error" /\ exc' = e

\* the file exists: the one given on the command line does
FileExists ==
    \/ script = "error_checker"
    \/ \E j \in 1..Len(directory) : DirectoryString(script) \o directory[j].name = input_file_name

\* with open(input_file_name, 'r') as file: a file that does not exist raises
\* FileNotFoundError
OpenFile ==
    /\ pc = "init"
    /\ IF FileExists
       THEN handles' = handles \cup {input_file_name} /\ pc' = "open" /\ UNCHANGED exc
       ELSE Raise("FileNotFoundError") /\ UNCHANGED handles
    /\ UNCHANGED <<variant, m, n, recs, file, content, num_arrays, array_dimension, i,
                   visited, inst, highest_errors, mean_errors, sd_errors, ret, callerVars>>
    /\ UNCHANGED <<consoleVars, previous, reportVars>>

\* content = file.readlines(), and the end of the with block
ReadFile ==
    /\ pc = "open"
    /\ content' = file
    /\ handles' = WithExit(handles, input_file_name)
    /\ pc' = "read"
    /\ UNCHANGED <<variant, m, n, recs, file, exc, num_arrays, array_dimension, i, visited,
                   inst, highest_errors, mean_errors, sd_errors, ret, callerVars>>
    /\ UNCHANGED <<consoleVars, previous, reportVars>>

SetupSquare ==
    /\ pc = "read"
    /\ variant = "square"
    /\ \E na \in {NumArrays(content)} :
           IF na.exc # "" THEN Raise(na.exc) /\ UNCHANGED num_arrays
           ELSE pc' = "loop" /\ num_arrays' = na.v /\ UNCHANGED exc
    /\ UNCHANGED <<variant, m, n, recs, file, content, array_dimension, i, visited, inst,
                   highest_errors, mean_errors, sd_errors, ret>>
    /\ UNCHANGED <<handles, callerVars>>
    /\ UNCHANGED <<consoleVars, previous, reportVars>>

\* the legacy script: num_arrays, highest_errors
SetupLegacy ==
    /\ pc = "read"
    /\ variant = "legacy"
    /\ \E na \in {NumArrays(content)} :
           IF na.exc # "" THEN Raise(na.exc) /\ UNCHANGED num_arrays
           ELSE pc' = "loop" /\ num_arrays' = na.v /\ UNCHANGED exc
    /\ UNCHANGED <<variant, m, n, recs, file, content, array_dimension, i, visited, inst,
                   highest_errors, mean_errors, sd_errors, ret>>
    /\ UNCHANGED <<handles, callerVars>>
    /\ UNCHANGED <<consoleVars, previous, reportVars>>

SetupRect ==
    /\ pc = "read"
    /\ variant = "rect"
    /\ \E na \in {NumArrays(content)} :
           IF na.exc # "" THEN Raise(na.exc) /\ UNCHANGED <<num_arrays, array_dimension>>
           ELSE \E d \in {RowDigit(content[Len(content)])} :
                    /\ num_arrays' = na.v
                    /\ IF d.exc # "" THEN Raise(d.exc) /\ UNCHANGED array_dimension
                       ELSE pc' = "loop" /\ array_dimension' = d.v /\ UNCHANGED exc
    /\ UNCHANGED <<variant, m, n, recs, file, content, i, visited, inst,
                   highest_errors, mean_errors, sd_errors, ret>>
    /\ UNCHANGED <<handles, callerVars>>
    /\ UNCHANGED <<consoleVars, previous, reportVars>>

(***************************************************************************)
(* What the checkers print.  An item of the console is one heading with    *)
(* the objects handed to print under it; head names the heading, i the     *)
(* instance the heading carries (f"R{i} matrix:").                         *)
(***************************************************************************)
Item(head, j, val) == [head |-> head, i |-> j, val |-> val]

\* step 5 of the relative-mode checker: A_matrix_fp_np and A_reconstructed
\* are the arrays as the assignments of lines 67 and 68 left them
ShowSquare(g, j) ==
    <<Item("R matrix", j, <<g.R>>), Item("Q matrix", j, <<g.Q>>),
      Item("Original A matrix", j, <<g.Ac>>),
      Item("A matrix constructed by multiplying Q and R", j, <<g.Arc>>),
      Item("Error between elements", j, <<g.errors>>),
      Item("Highest error", j, <<g.highest>>)>>

\* step 5 of the legacy script: the arrays are printed as they are
ShowLegacy(g, j) ==
    <<Item("R matrix", j, <<g.R>>), Item("Q matrix", j, <<g.Q>>),
      Item("Original A matrix", j, <<g.A>>),
      Item("A matrix constructed by multiplying Q and R", j, <<g.Ar>>),
      Item("Error between elements", j, <<g.errors>>),
      Item("Highest error", j, <<g.highest>>)>>

\* pd.DataFrame(A_reconstructed) of a numpy.float64 (the product of two
\* empty vectors) raises ValueError: the heading is out, the matrix is not
DataFrameFails(g) == g.stage = "ok" /\ g.Ar.nd = 0

\* step 5 of the absolute-mode checker
ShowRect(g, j) ==
    <<Item("R matrix", j, <<g.R>>), Item("Q matrix", j, <<g.Q>>),
      Item("Original A matrix", j, <<g.A>>)>>
    \o (IF DataFrameFails(g)
        THEN <<Item("A matrix constructed by multiplying Q and R", j, <<>>)>>
        ELSE <<Item("A matrix constructed by multiplying Q and R", j, <<g.Ar>>),
               Item("Error between elements", j, <<g.errors>>),
               Item("Highest error", j, <<g.highest>>),
               Item("Mean error", j, <<g.mean>>),
               Item("SD error", j, <<g.var>>)>>)

\* the locals of the pass after step 5
PrintedRect(g, verbose) ==
    IF verbose /\ DataFrameFails(g) THEN [g EXCEPT !.stage = "print", !.exc = "ValueError"]
    ELSE g

\* the heading of the summary the checkers end with
SUMMARY == "Maximum error across all input arrays"

IterateSquare ==
    /\ pc = "loop"
    /\ variant = "square"
    /\ i < num_arrays
    /\ \E r \in {InstanceSquare(content, i, n)} :
           /\ inst' = r
           /\ visited' = Append(visited, i)
           /\ IF r.exc # ""
              THEN Raise(r.exc) /\ UNCHANGED <<i, highest_errors, mean_errors>>
              ELSE /\ highest_errors' = Append(highest_errors, r.highest)
                   /\ mean_errors' = Append(mean_errors, r.mean)
                   /\ i' = i + 1
                   /\ UNCHANGED <<pc, exc>>
    /\ UNCHANGED <<variant, m, n, recs, file, content, num_arrays, array_dimension,
                   sd_errors, ret>>
    /\ UNCHANGED <<handles, callerVars>>
    /\ stdout' = IF ~suppress /\ inst'.exc = "" THEN stdout \o ShowSquare(inst', i) ELSE stdout
    /\ UNCHANGED <<suppress, previous, reportVars>>

IterateLegacy ==
    /\ pc = "loop"
    /\ variant = "legacy"
    /\ i < num_arrays
    /\ \E r \in {InstanceLegacy(content, i, n)} :
           /\ inst' = r
           /\ visited' = Append(visited, i)
           /\ IF r.exc # ""
              THEN Raise(r.exc) /\ UNCHANGED <<i, highest_errors>>
              ELSE /\ highest_errors' = Append(highest_errors, r.highest)
                   /\ i' = i + 1
                   /\ UNCHANGED <<pc, exc>>
    /\ UNCHANGED <<variant, m, n, recs, file, content, num_arrays, array_dimension,
                   mean_errors, sd_errors, ret>>
    /\ UNCHANGED <<handles, callerVars>>
    /\ stdout' = IF suppress /\ inst'.exc = "" THEN stdout \o ShowLegacy(inst', i) ELSE stdout
    /\ UNCHANGED <<suppress, previous, reportVars>>

IterateRect ==
    /\ pc = "loop"
    /\ variant = "rect"
    /\ i < num_arrays
    /\ \E b \in {InstanceRect(content, i, n, array_dimension)} :
           /\ inst' = PrintedRect(b.res, ~suppress)
           /\ content' = b.rest
           /\ visited' = Append(visited, i)
           /\ stdout' = IF ~suppress /\ b.res.exc = "" THEN stdout \o ShowRect(b.res, i)
                        ELSE stdout
           /\ IF inst'.exc # ""
              THEN Raise(inst'.exc) /\ UNCHANGED <<i, highest_errors, mean_errors, sd_errors>>
              ELSE /\ highest_errors' = Append(highest_errors, b.res.highest)
                   /\ mean_errors' = Append(mean_errors, b.res.mean)
                   /\ sd_errors' = Append(sd_errors, NpAbs(b.res.errors))
                   /\ i' = i + 1
                   /\ UNCHANGED <<pc, exc>>
    /\ UNCHANGED <<variant, m, n, recs, file, num_arrays, array_dimension, ret>>
    /\ UNCHANGED <<handles, callerVars>>
    /\ UNCHANGED <<suppress, previous, reportVars>>

\* the worst errors averaged: np.mean(highest_errors)
AggregateWorstAveraged(hs) == NpMean(hs)

\* the worst error held to the largest magnitude of a Qm.n number, 2^(m-1)
AggregateWorstInRange(hs) ==
    IF m >= 1 /\ IsNum(NpMax(hs)) /\ RLess(RInt(Pow2(m - 1)), NpMax(hs)) THEN RInt(Pow2(m - 1))
    ELSE NpMax(hs)

\* np.max(highest_errors): of no values it raises ValueError
AggregateWorst(hs) == NpMax(hs)

\* np.mean(mean_errors)
AggregateMean(ms) == NpMean(ms)

\* the deviation of the per-instance means: np.std([np.mean(e) for e in sd_errors])
AggregateVarOfMeans(sds) == NpVar([k \in 1..Len(sds) |-> NpMean(Flat(sds[k]))])

\* np.std(sd_errors) squared: the arrays are stacked (they must have one
\* shape) and the deviation is taken over all values of the stack
AggregateVar(sds) == NpVar(Concat([k \in 1..Len(sds) |-> Flat(sds[k])]))

\* print(np.max(highest_errors),np.mean(mean_errors)) under its heading
SummarySquare(hs, ms) ==
    Item(SUMMARY, 0, IF hs = <<>> THEN <<>> ELSE <<AggregateWorst(hs), AggregateMean(ms)>>)

\* print(highest_error,mean_error, sd_error) under its heading: the locals of
\* the last pass of the loop
SummaryRect(g) == Item(SUMMARY, 0, <<g.highest, g.mean, g.var>>)

\* print(np.max(highest_errors)) of the legacy script, under the heading when
\* args.suppress is set
SummaryLegacy(hs, heading) ==
    Item(IF heading THEN SUMMARY ELSE "", 0, IF hs = <<>> THEN <<>> ELSE <<AggregateWorst(hs)>>)

ReturnSquare ==
    /\ pc = "loop"
    /\ variant = "square"
    /\ i >= num_arrays
    /\ stdout' = IF suppress THEN stdout
                 ELSE Append(stdout, SummarySquare(highest_errors, mean_errors))
    /\ IF highest_errors = <<>> THEN Raise("ValueError") /\ UNCHANGED ret
       ELSE /\ ret' = <<AggregateWorst(highest_errors), AggregateMean(mean_errors)>>
            /\ pc' = "done"
            /\ UNCHANGED exc
    /\ UNCHANGED <<variant, m, n, recs, file, content, num_arrays, array_dimension, i,
                   visited, inst, highest_errors, mean_errors, sd_errors>>
    /\ UNCHANGED <<handles, callerVars, suppress, previous, reportVars>>

\* the legacy script ends with print(np.max(highest_errors))
ReturnLegacy ==
    /\ pc = "loop"
    /\ variant = "legacy"
    /\ i >= num_arrays
    /\ stdout' = IF highest_errors = <<>> /\ ~suppress THEN stdout
                 ELSE Append(stdout, SummaryLegacy(highest_errors, suppress))
    /\ IF highest_errors = <<>> THEN Raise("ValueError") /\ UNCHANGED ret
       ELSE /\ ret' = <<AggregateWorst(highest_errors)>>
            /\ pc' = "done"
            /\ UNCHANGED exc
    /\ UNCHANGED <<variant, m, n, recs, file, content, num_arrays, array_dimension, i,
                   visited, inst, highest_errors, mean_errors, sd_errors>>
    /\ UNCHANGED <<handles, callerVars, suppress, previous, reportVars>>

ReturnRect ==
    /\ pc = "loop"
    /\ variant = "rect"
    /\ i >= num_arrays
    /\ stdout' = IF suppress THEN stdout
                 ELSE Append(stdout, IF visited = <<>> THEN Item(SUMMARY, 0, <<>>)
                                     ELSE SummaryRect(inst))
    /\ IF visited = <<>> /\ ~suppress THEN Raise("UnboundLocalError") /\ UNCHANGED ret
       ELSE IF highest_errors = <<>> THEN Raise("ValueError") /\ UNCHANGED ret
       ELSE IF \E k \in 1..Len(sd_errors) : Shape(sd_errors[k]) # Shape(sd_errors[1])
       THEN Raise("ValueError") /\ UNCHANGED ret
       ELSE /\ ret' = <<AggregateWorst(highest_errors), AggregateMean(mean_errors),
                        AggregateVar(sd_errors)>>
            /\ pc' = "done"
            /\ UNCHANGED exc
    /\ UNCHANGED <<variant, m, n, recs, file, content, num_arrays, array_dimension, i,
                   visited, inst, highest_errors, mean_errors, sd_errors>>
    /\ UNCHANGED <<handles, callerVars, suppress, previous, reportVars>>

\* __main__ of the two error_checker.py: the returned values are unpacked
\* (two names in 3_..., three in 5_...) and printed
PrintResult ==
    /\ script = "error_checker"
    /\ variant \in {"square", "rect"}
    /\ pc = "done"
    /\ stdout' = Append(stdout, Item("", 0, ret))
    /\ pc' = "exit"
    /\ UNCHANGED <<variant, m, n, recs, file, exc, content, num_arrays, array_dimension, i,
                   visited, inst, highest_errors, mean_errors, sd_errors, ret>>
    /\ UNCHANGED <<handles, callerVars, suppress, previous, reportVars>>

\* the values of -m a second run is made with
Ms == {1, 3}

\* what a run leaves behind: the returned values, the exception, the locals
\* of the last pass and the errors collected
Outcome ==
    [m |-> m, ret |-> ret, exc |-> exc, inst |-> inst, highest_errors |-> highest_errors,
     mean_errors |-> mean_errors, sd_errors |-> sd_errors]

\* the quiet run is made once more from the command line, on the same file
\* with the same -n and -s and another -m
RunAgain ==
    /\ script = "error_checker"
    /\ variant \in {"square", "rect"}
    /\ pc \in {"exit", "error"}
    /\ suppress
    /\ previous = <<>>
    /\ previous' = <<Outcome>>
    /\ m' \in Ms \ {m}
    /\ pc' = "init"
    /\ exc' = ""
    /\ content' = <<>>
    /\ num_arrays' = 0
    /\ array_dimension' = 0
    /\ i' = 0
    /\ visited' = <<>>
    /\ inst' = Blank
    /\ highest_errors' = <<>>
    /\ mean_errors' = <<>>
    /\ sd_errors' = <<>>
    /\ ret' = <<>>
    /\ stdout' = <<>>
    /\ UNCHANGED <<variant, n, recs, file, handles, callerVars, suppress, reportVars>>

\* generate_constants, lines 21 to 39
ComputeConstants ==
    /\ script = "generate_constants"
    /\ pc = "args"
    /\ consts' = Constants(n)
    /\ pc' = "computed"
    /\ UNCHANGED <<variant, m, n, recs, file, exc, content, num_arrays, array_dimension, i,
                   visited, inst, highest_errors, mean_errors, sd_errors, ret, handles,
                   script, output, driverVars>>
    /\ UNCHANGED <<consoleVars, previous, reportVars>>

\* generate_constants, lines 41 to 62: print(output)
PrintOutput ==
    /\ script = "generate_constants"
    /\ pc = "computed"
    /\ output' = OutputText(m, n, consts)
    /\ pc' = "printed"
    /\ UNCHANGED <<variant, m, n, recs, file, exc, content, num_arrays, array_dimension, i,
                   visited, inst, highest_errors, mean_errors, sd_errors, ret, handles,
                   script, consts, driverVars>>
    /\ UNCHANGED <<consoleVars, previous, reportVars>>

(***************************************************************************)
(* The run of a sweep driver                                               *)
(***************************************************************************)
\* the values the loop of the experiment goes over: k_values, then i_values
Swept == IF experiment = 1 THEN k_values ELSE i_values

DriverAbort(e) == exc' = e /\ dpc' = "aborted"

\* sweep3 lines 5 to 28, sweep5 lines 24 to 44: the listing, the values of
\* the names and the header; m_values[0] of an empty listing raises IndexError
ListDirectory ==
    /\ script \in Sweeps
    /\ dpc = "start"
    /\ \E fs \in {Listed(script, 1, directory)} :
          IF ~(AllOk(ParsedK(fs)) /\ AllOk(ParsedN(fs)) /\ AllOk(ParsedM(fs))
               /\ (script = "sweep3" => AllOk(ParsedI(fs))))
          THEN /\ DriverAbort("ValueError")
               /\ UNCHANGED <<m, k_values, n_values, i_values, top_line, experiment, ki,
                              csv_file_worst_contents, csv_file_average_contents>>
          ELSE IF fs = <<>>
          THEN /\ DriverAbort("IndexError")
               /\ UNCHANGED <<m, k_values, n_values, i_values, top_line, experiment, ki,
                              csv_file_worst_contents, csv_file_average_contents>>
          ELSE /\ k_values' = Values(ParsedK(fs))
               /\ n_values' = Values(ParsedN(fs))
               /\ m' = ParsedM(fs)[1].v
               /\ i_values' = IF script = "sweep3" THEN Values(ParsedI(fs)) ELSE <<>>
               /\ top_line' = TopLine(TOP_K, Values(ParsedN(fs)))
               /\ csv_file_worst_contents' = <<TopLine(TOP_K, Values(ParsedN(fs)))>>
               /\ csv_file_average_contents' = <<TopLine(TOP_K, Values(ParsedN(fs)))>>
               /\ experiment' = 1
               /\ ki' = 1
               /\ dpc' = "row"
               /\ UNCHANGED exc
    /\ UNCHANGED <<variant, n, recs, file, pc, content, num_arrays, array_dimension, i, visited,
                   inst, highest_errors, mean_errors, sd_errors, ret, handles, script, consts,
                   output, directory, csv_row_worst_case, csv_row_average_case, ni,
                   input_file_name, disk, calls>>
    /\ UNCHANGED <<consoleVars, previous, reportVars>>

\* for k in k_values: the two rows start with f"{k},"
StartRow ==
    /\ script \in Sweeps
    /\ dpc = "row"
    /\ ki <= Len(Swept)
    /\ csv_row_worst_case' = RowStart(Swept[ki])
    /\ csv_row_average_case' = RowStart(Swept[ki])
    /\ ni' = 1
    /\ dpc' = "cell"
    /\ UNCHANGED <<checkerVars, handles, script, consts, output, directory, experiment,
                   k_values, n_values, i_values, top_line, csv_file_worst_contents,
                   csv_file_average_contents, ki, input_file_name, disk, calls>>
    /\ UNCHANGED <<consoleVars, previous, reportVars>>

\* the entries of the directory that file_name names
FilesNamed(fn) == SelectSeq(directory, LAMBDA e : DirectoryString(script) \o e.name = fn)

\* for n in n_values: file_name = ...; error_checker.runErrorChecker(m,n,file_name,True)
CallChecker ==
    /\ script \in Sweeps
    /\ dpc = "cell"
    /\ ni <= Len(n_values)
    /\ \E fn \in {FileName(script, experiment, Swept[ki], m, n_values[ni])} :
          /\ input_file_name' = fn
          /\ recs' = IF FilesNamed(fn) = <<>> THEN <<>> ELSE FilesNamed(fn)[1].recs
          /\ file' = IF FilesNamed(fn) = <<>> THEN <<>>
                     ELSE FormatFile(FilesNamed(fn)[1].recs, FilesNamed(fn)[1].fmt)
    /\ n' = n_values[ni]
    /\ variant' = IF script = "sweep3" THEN "square" ELSE "rect"
    /\ pc' = "init"
    /\ exc' = ""
    /\ content' = <<>>
    /\ num_arrays' = 0
    /\ array_dimension' = 0
    /\ i' = 0
    /\ visited' = <<>>
    /\ inst' = Blank
    /\ highest_errors' = <<>>
    /\ mean_errors' = <<>>
    /\ sd_errors' = <<>>
    /\ ret' = <<>>
    /\ dpc' = "running"
    /\ UNCHANGED <<m, handles, script, consts, output, directory, experiment, k_values,
                   n_values, i_values, top_line, csv_file_worst_contents,
                   csv_file_average_contents, csv_row_worst_case, csv_row_average_case, ki, ni,
                   disk, calls>>
    /\ UNCHANGED <<consoleVars, previous, reportVars>>

\* worst,average = ...; the two rows get f"{average:.20f}," and f"{worst:.20f},"
Unpack ==
    /\ script \in Sweeps
    /\ dpc = "running"
    /\ pc = "done"
    /\ calls' = Append(calls, [name |-> input_file_name, ret |-> ret])
    /\ IF Len(ret) # UnpackTargets(script)
       THEN /\ DriverAbort("ValueError")
            /\ UNCHANGED <<csv_row_worst_case, csv_row_average_case, ni>>
       ELSE /\ csv_row_average_case' = csv_row_average_case \o MetricCell(ret[2])
            /\ csv_row_worst_case' = csv_row_worst_case \o MetricCell(ret[1])
            /\ ni' = ni + 1
            /\ dpc' = "cell"
            /\ UNCHANGED exc
    /\ UNCHANGED <<variant, m, n, recs, file, pc, content, num_arrays, array_dimension, i,
                   visited, inst, highest_errors, mean_errors, sd_errors, ret, handles, script,
                   consts, output, directory, experiment, k_values, n_values, i_values, top_line,
                   csv_file_worst_contents, csv_file_average_contents, ki, input_file_name,
                   disk>>
    /\ UNCHANGED <<consoleVars, previous, reportVars>>

\* the exception that ended runErrorChecker leaves the driver too
Propagate ==
    /\ script \in Sweeps
    /\ dpc = "running"
    /\ pc = "error"
    /\ calls' = Append(calls, [name |-> input_file_name, ret |-> <<>>])
    /\ dpc' = Uncaught("cell")
    /\ ni' = IF Uncaught("cell") = "aborted" THEN ni ELSE ni + 1
    /\ UNCHANGED <<checkerVars, handles, script, consts, output, directory, experiment,
                   k_values, n_values, i_values, top_line, csv_file_worst_contents,
                   csv_file_average_contents, csv_row_worst_case, csv_row_average_case, ki,
                   input_file_name, disk>>
    /\ UNCHANGED <<consoleVars, previous, reportVars>>

\* the end of the loop over n_values: the two rows are appended
EndRow ==
    /\ script \in Sweeps
    /\ dpc = "cell"
    /\ ni > Len(n_values)
    /\ csv_file_worst_contents' = Append(csv_file_worst_contents, csv_row_worst_case)
    /\ csv_file_average_contents' = Append(csv_file_average_contents, csv_row_average_case)
    /\ ki' = ki + 1
    /\ dpc' = "row"
    /\ UNCHANGED <<checkerVars, handles, script, consts, output, directory, experiment,
                   k_values, n_values, i_values, top_line, csv_row_worst_case,
                   csv_row_average_case, ni, input_file_name, disk, calls>>
    /\ UNCHANGED <<consoleVars, previous, reportVars>>

\* with open(directory_string + '...csv', 'w') as f: after the loop over the
\* swept values the largest-error file, then the average-error file
OpenCsv ==
    /\ script \in Sweeps
    /\ \/ dpc = "row" /\ ki > Len(Swept) /\ dpc' = "worst_open"
                      /\ handles' = handles \cup {CsvName(script, experiment, "worst")}
       \/ dpc = "average" /\ dpc' = "average_open"
                          /\ handles' = handles \cup {CsvName(script, experiment, "average")}
    /\ UNCHANGED <<checkerVars, script, consts, output, directory, experiment, k_values,
                   n_values, i_values, top_line, csv_file_worst_contents,
                   csv_file_average_contents, csv_row_worst_case, csv_row_average_case, ki, ni,
                   input_file_name, disk, calls>>
    /\ UNCHANGED <<consoleVars, previous, reportVars>>

\* for line in ...: f.write(f"{line}\n"), and the end of the with block
WriteCsv ==
    /\ script \in Sweeps
    /\ \/ /\ dpc = "worst_open"
          /\ disk' = Append(disk, [name |-> CsvName(script, experiment, "worst"),
                                   lines |-> Written(csv_file_worst_contents)])
          /\ handles' = WithExit(handles, CsvName(script, experiment, "worst"))
          /\ dpc' = "average"
       \/ /\ dpc = "average_open"
          /\ disk' = Append(disk, [name |-> CsvName(script, experiment, "average"),
                                   lines |-> Written(csv_file_average_contents)])
          /\ handles' = WithExit(handles, CsvName(script, experiment, "average"))
          /\ dpc' = IF experiment = 1 THEN "second" ELSE "finished"
    /\ UNCHANGED <<checkerVars, script, consts, output, directory, experiment, k_values,
                   n_values, i_values, top_line, csv_file_worst_contents,
                   csv_file_average_contents, csv_row_worst_case, csv_row_average_case, ki, ni,
                   input_file_name, calls>>
    /\ UNCHANGED <<consoleVars, previous, reportVars>>

\* the second experiment: sweep3 lines 51 to 53; sweep5 lines 75 to 91, which
\* list the directory again and add 16 to i_values
SecondExperiment ==
    /\ script \in Sweeps
    /\ dpc = "second"
    /\ IF script = "sweep3"
       THEN /\ top_line' = TopLine(TOP_I, n_values)
            /\ csv_file_worst_contents' = <<TopLine(TOP_I, n_values)>>
            /\ csv_file_average_contents' = <<TopLine(TOP_I, n_values)>>
            /\ UNCHANGED <<n_values, i_values>>
       ELSE \E fs \in {Listed(script, 2, directory)} :
               /\ n_values' = Values(ParsedN(fs))
               /\ i_values' = Sort(Append(Unique([j \in 1..Len(fs) |-> ParsedI(fs)[j].v]), 16))
               /\ top_line' = TopLine(TOP_I, Values(ParsedN(fs)))
               /\ csv_file_worst_contents' = <<TopLine(TOP_I, Values(ParsedN(fs)))>>
               /\ csv_file_average_contents' = <<TopLine(TOP_I, Values(ParsedN(fs)))>>
    /\ experiment' = 2
    /\ ki' = 1
    /\ dpc' = "row"
    /\ UNCHANGED <<checkerVars, handles, script, consts, output, directory, k_values,
                   csv_row_worst_case, csv_row_average_case, ni, input_file_name, disk, calls>>
    /\ UNCHANGED <<consoleVars, previous, reportVars>>

(***************************************************************************)
(* The call processUtilisationReport(fpga_part, clock_period,              *)
(* loop_unroll_factor, m, n, k, i, directory_string)                       *)
(***************************************************************************)
\* with open(filePath_util, 'r') as file
OpenUtilisation ==
    /\ script = "utilisation_report"
    /\ rpc = "call"
    /\ rpc' = "util_open"
    /\ handles' = handles \cup {filePath_util(args)}
    /\ UNCHANGED <<checkerVars, callerVars, consoleVars, previous, args, reports, rexc,
                   content_util, contents, timing_violations, headings, resource_table,
                   written, returned>>

\* content = file.readlines(), and the end of the with block
ReadUtilisation ==
    /\ script = "utilisation_report"
    /\ rpc = "util_open"
    /\ content_util' = reports.utilisation
    /\ handles' = WithExit(handles, filePath_util(args))
    /\ rpc' = "util_read"
    /\ UNCHANGED <<checkerVars, callerVars, consoleVars, previous, args, reports, rexc,
                   contents, timing_violations, headings, resource_table, written,
                   returned>>

\* timing_violations=False; with open(filePath_timing, 'r') as file
OpenTiming ==
    /\ script = "utilisation_report"
    /\ rpc = "util_read"
    /\ timing_violations' = FALSE
    /\ handles' = handles \cup {filePath_timing(args)}
    /\ rpc' = "timing_open"
    /\ UNCHANGED <<checkerVars, callerVars, consoleVars, previous, args, reports, rexc,
                   content_util, contents, headings, resource_table, written, returned>>

\* contents = file.read(); if(contents.find("VIOLATED")): timing_violations=True,
\* and the end of the with block
ReadTiming ==
    /\ script = "utilisation_report"
    /\ rpc = "timing_open"
    /\ contents' = reports.timing
    /\ timing_violations' = IF TimingViolations(contents') THEN TRUE ELSE timing_violations
    /\ handles' = WithExit(handles, filePath_timing(args))
    /\ rpc' = "timing_read"
    /\ UNCHANGED <<checkerVars, callerVars, consoleVars, previous, args, reports, rexc,
                   content_util, headings, resource_table, written, returned>>

\* start_index, headings and resource_table; the exception of content.index
\* or of content[start_index] ends the call
ParseTable ==
    /\ script = "utilisation_report"
    /\ rpc = "timing_read"
    /\ \E start \in {StartIndex(content_util)} :
          IF start.exc # "" THEN
              /\ rexc' = start.exc
              /\ rpc' = "raised"
              /\ UNCHANGED <<headings, resource_table>>
          ELSE IF Headings(content_util, start.v).exc # "" THEN
              /\ rexc' = Headings(content_util, start.v).exc
              /\ rpc' = "raised"
              /\ UNCHANGED <<headings, resource_table>>
          ELSE
              /\ headings' = Headings(content_util, start.v).v
              /\ resource_table' = ResourceTable(content_util, start.v)
              /\ rpc' = "parsed"
              /\ UNCHANGED rexc
    /\ UNCHANGED <<checkerVars, handles, callerVars, consoleVars, previous, args, reports,
                   content_util, contents, timing_violations, written, returned>>

\* with open(f"{directory_string}/{filePrefix}_utilisation.csv", 'w') as output_file
OpenOutput ==
    /\ script = "utilisation_report"
    /\ rpc = "parsed"
    /\ handles' = handles \cup {filePath_csv(args)}
    /\ rpc' = "csv_open"
    /\ UNCHANGED <<checkerVars, callerVars, consoleVars, previous, args, reports, rexc,
                   content_util, contents, timing_violations, headings, resource_table,
                   written, returned>>

\* the lines written, the end of the with block and the return statement
WriteOutput ==
    /\ script = "utilisation_report"
    /\ rpc = "csv_open"
    /\ written' = [name |-> filePath_csv(args), lines |-> OutputLines(headings, resource_table)]
    /\ handles' = WithExit(handles, filePath_csv(args))
    /\ returned' = <<ReturnedReport(timing_violations, headings, resource_table)>>
    /\ rpc' = "returned"
    /\ UNCHANGED <<checkerVars, callerVars, consoleVars, previous, args, reports, rexc,
                   content_util, contents, timing_violations, headings, resource_table>>

Next ==
    \/ OpenFile
    \/ ReadFile
    \/ SetupSquare
    \/ SetupLegacy
    \/ SetupRect
    \/ IterateSquare
    \/ IterateLegacy
    \/ IterateRect
    \/ ReturnSquare
    \/ ReturnLegacy
    \/ ReturnRect
    \/ PrintResult
    \/ RunAgain
    \/ ComputeConstants
    \/ PrintOutput
    \/ ListDirectory
    \/ StartRow
    \/ CallChecker
    \/ Unpack
    \/ Propagate
    \/ EndRow
    \/ OpenCsv
    \/ WriteCsv
    \/ SecondExperiment
    \/ OpenUtilisation
    \/ ReadUtilisation
    \/ OpenTiming
    \/ ReadTiming
    \/ ParseTable
    \/ OpenOutput
    \/ WriteOutput

Spec == Init /\ [][Next]_vars
(***************************************************************************)
(* Properties of the relative-mode error of one instance                   *)
(***************************************************************************)
Cells(a) == {<<r, c>> : r \in 1..NRows(a), c \in 1..NCols(a)}

Cell(a, p) == a.rows[p[1]][p[2]]

\* |x| < f for numbers x and f, by cross multiplication
BelowFloor(x, f) == AbsInt(x[1]) * f[2] < f[1] * x[2]

Floored(x, f) == IF BelowFloor(x, f) THEN f ELSE x

\* the relative-mode checker has compared A and the product of one shape
SquareCompared == variant = "square" /\ inst.stage = "ok" /\ Shape(inst.A) = Shape(inst.Ar)

ClampedRelativeError ==
    /\ RMul(inst.near0, RInt(1000 * Size(inst.Ar)))
          = SumSeq([k \in 1..Size(inst.Ar) |-> RAbs(Flat(inst.Ar)[k])])
    /\ \A p \in Cells(inst.A) :
          /\ Cell(inst.Ac, p) = Floored(Cell(inst.A, p), inst.near0)
          /\ Cell(inst.Arc, p) = Floored(Cell(inst.Ar, p), inst.near0)
          /\ Cell(inst.errors, p)
                = RDiv(RAbs(RSub(Floored(Cell(inst.A, p), inst.near0),
                                 Floored(Cell(inst.Ar, p), inst.near0))),
                       RAbs(Floored(Cell(inst.A, p), inst.near0)))

\* C1: in the relative-mode checker near0 is the mean of |Q x R| over 1000,
\* every element of A and of Q x R whose magnitude is below near0 is replaced
\* by near0 and the others are kept, and the error of element (i,j) is
\* |a'_ij - r'_ij| / |a'_ij| on the replaced values.
C1_ClampedRelativeError == SquareCompared => ClampedRelativeError

\* C1 for n >= 1, where the decoded matrices are arrays of floats
C1_ClampedRelativeErrorOfFloats == (SquareCompared /\ n >= 1) => ClampedRelativeError

\* the decoded A equals the product element for element
ExactInstance == SquareCompared /\ inst.A = inst.Ar

\* C2: when the decoded A equals Q x R element for element, every error of
\* the instance is exactly 0 and none is an undefined quotient.
C2_ExactProductGivesZero ==
    ExactInstance =>
        /\ \A p \in Cells(inst.errors) : Cell(inst.errors, p) = Zero
        /\ inst.highest = Zero
        /\ inst.mean = Zero

\* C2 for float arrays and a product that is not all zero
C2_ExactNonZeroProductGivesZero ==
    (ExactInstance /\ inst.near0 # Zero /\ n >= 1) =>
        /\ \A p \in Cells(inst.errors) : Cell(inst.errors, p) = Zero
        /\ inst.highest = Zero
        /\ inst.mean = Zero

\* C3: every denominator of the relative error has magnitude at least near0
\* and every error is a finite number.
C3_ErrorsFinite ==
    SquareCompared =>
        \A p \in Cells(inst.errors) :
            /\ ~BelowFloor(Cell(inst.Ac, p), inst.near0)
            /\ IsNum(Cell(inst.errors, p))

\* C3 for float arrays and a product that is not all zero
C3_ErrorsFiniteAboveZeroFloor ==
    (SquareCompared /\ inst.near0 # Zero /\ n >= 1) =>
        \A p \in Cells(inst.errors) :
            /\ ~BelowFloor(Cell(inst.Ac, p), inst.near0)
            /\ IsNum(Cell(inst.errors, p))

(***************************************************************************)
(* Properties of the aggregation                                           *)
(***************************************************************************)
\* the last pass of the loop body ended without an exception and appended
LastAppended ==
    (variant # "legacy" /\ pc \in {"loop", "done"} /\ visited # <<>>) =>
        /\ Len(highest_errors) = Len(visited)
        /\ Len(mean_errors) = Len(visited)
        /\ highest_errors[Len(visited)] = inst.highest
        /\ mean_errors[Len(visited)] = inst.mean

\* C4: the worst error runErrorChecker returns is the maximum of the per-instance worst
\* errors and the mean error it returns is the arithmetic mean of the
\* per-instance mean errors, each of the instances 0..N-1 giving one value to
\* each list (a per-instance value that is not a number makes the aggregate
\* not a number).
C4_AggregateMaxAndMean ==
    /\ LastAppended
    /\ (variant # "legacy" /\ pc = "done") =>
          /\ num_arrays >= 1
          /\ visited = [k \in 1..num_arrays |-> k - 1]
          /\ Len(highest_errors) = num_arrays
          /\ Len(mean_errors) = num_arrays
          /\ IF \E k \in 1..num_arrays : ~IsNum(highest_errors[k]) THEN ~IsNum(ret[1])
             ELSE /\ \E k \in 1..num_arrays : ret[1] = highest_errors[k]
                  /\ \A k \in 1..num_arrays : RLeq(highest_errors[k], ret[1])
          /\ IF \E k \in 1..num_arrays : ~IsNum(mean_errors[k]) THEN ~IsNum(ret[2])
             ELSE RMul(ret[2], RInt(num_arrays)) = SumSeq(mean_errors)

\* a run over two instances whose worst errors differ and are not their average
C4_Witness ==
    /\ variant # "legacy" /\ pc = "done"
    /\ num_arrays = 2
    /\ IsNum(highest_errors[1]) /\ IsNum(highest_errors[2])
    /\ RLess(highest_errors[2], highest_errors[1])
    /\ ret[1] = highest_errors[1]
    /\ mean_errors[1] # mean_errors[2]
    /\ ret[2] # ret[1]

\* all per-element errors the absolute-mode run appended, instance after instance
Pool == Concat([k \in 1..Len(sd_errors) |-> Flat(sd_errors[k])])

SumOfSquares(s) == SumSeq([k \in 1..Len(s) |-> RMul(s[k], s[k])])

\* the last pass of the absolute-mode loop body appended |a_ij - r_ij|
LastPooled ==
    (variant = "rect" /\ pc \in {"loop", "done"} /\ visited # <<>>) =>
        /\ Len(sd_errors) = Len(visited)
        /\ sd_errors[Len(visited)] = inst.errors
        /\ Shape(inst.A) = Shape(inst.Ar) =>
              \A p \in Cells(inst.A) :
                  Cell(inst.errors, p) = RAbs(RSub(Cell(inst.A, p), Cell(inst.Ar, p)))

\* C5: the deviation the absolute-mode checker returns is the deviation of
\* the pool of all per-element absolute errors of all instances: with s the
\* returned deviation and x_1..x_M the pool, M^2 s^2 = M sum(x^2) - (sum x)^2.
C5_PooledDeviation ==
    /\ LastPooled
    /\ (variant = "rect" /\ pc = "done") =>
          /\ Len(sd_errors) = num_arrays
          /\ RMul(ret[3], RInt(Len(Pool) * Len(Pool)))
                = RSub(RMul(RInt(Len(Pool)), SumOfSquares(Pool)),
                       RMul(SumSeq(Pool), SumSeq(Pool)))

\* two instances of one deviation, not 0, and different means: the pooled
\* deviation is neither the per-instance deviation nor that of the means
C5_Witness ==
    /\ variant = "rect" /\ pc = "done"
    /\ Len(sd_errors) = 2
    /\ NpVar(Flat(sd_errors[1])) = NpVar(Flat(sd_errors[2]))
    /\ NpVar(Flat(sd_errors[1])) # Zero
    /\ mean_errors[1] # mean_errors[2]
    /\ ret[3] # NpVar(Flat(sd_errors[1]))
    /\ ret[3] # NpVar(mean_errors)

(***************************************************************************)
(* Properties of the parser                                                *)
(***************************************************************************)
\* the index the last line of the file was written with
L == recs[Len(recs)].idx

\* the file holds N instances whose A, Q and R are the k x k identity scaled by 2^n
IsIdentityCapture(N, k) ==
    recs = CaptureRecs([j \in 1..N |-> [A |-> Identity(k, n), Q |-> Identity(k, n),
                                        R |-> Identity(k, n)]], 0)

IdentityCapture == recs # <<>> /\ IsIdentityCapture(L + 1, Len(recs[1].cells))

\* the k x k identity as a decoded matrix
Eye(k) == [r \in 1..k |-> [c \in 1..k |-> IF r = c THEN RInt(1) ELSE Zero]]

DecodedAndZero ==
    /\ pc # "error"
    /\ visited # <<>> =>
          /\ inst.stage = "ok"
          /\ inst.A.nd = 2 /\ inst.A.rows = Eye(Len(recs[1].cells))
          /\ inst.Q = inst.A /\ inst.R = inst.A /\ inst.Ar = inst.A
          /\ inst.highest = Zero /\ inst.mean = Zero
    /\ pc = "done" => ret = <<Zero, Zero>> /\ Len(visited) = L + 1

\* C6: on a capture of N instances whose A, Q and R are the k x k identity
\* scaled by 2^n the relative-mode checker raises nothing, decodes A as the
\* k x k identity in every instance (no cell lost or cut by the end-of-line
\* strip), finds the product equal to it, and returns worst error 0 and mean
\* error 0 after N instances.
C6_IdentityCaptureGivesZero == (variant = "square" /\ IdentityCapture) => DecodedAndZero

\* C6 for n >= 1, where the decoded matrices are arrays of floats
C6_IdentityCaptureOfFloatsGivesZero ==
    (variant = "square" /\ IdentityCapture /\ n >= 1) => DecodedAndZero

\* the rows the file was written with for kind K of instance j, decoded (a
\* line written without its colons carries no kind and no instance)
RowsOf(K, j) ==
    [k \in 1..Len(SelectSeq(recs, LAMBDA r : r.kind = K /\ r.idx = j /\ r.form # "nocolon")) |->
        [c \in 1..Len(SelectSeq(recs, LAMBDA r : r.kind = K /\ r.idx = j /\ r.form # "nocolon")[k].cells) |->
            RNorm(SelectSeq(recs, LAMBDA r : r.kind = K /\ r.idx = j /\ r.form # "nocolon")[k].cells[c], Pow2(n))]]

\* the matrix of kind K the loop body holds is made of exactly those rows
HoldsRowsOf(X, K, j) ==
    IF RowsOf(K, j) = <<>> THEN X.nd = 1 /\ Size(X) = 0
    ELSE X.nd = 2 /\ X.rows = RowsOf(K, j)

\* C7: in the relative-mode checker the decoded matrix of kind K of instance
\* i has exactly the rows of the lines written as K of instance i, in file
\* order, whatever other lines the file holds (A is decoded first, then R,
\* then Q).
C7_RowsAreTheLinesOfTheInstance ==
    (variant = "square" /\ visited # <<>>) =>
        /\ inst.stage # "A" => HoldsRowsOf(inst.A, "A", visited[Len(visited)])
        /\ inst.stage \notin {"A", "R"} => HoldsRowsOf(inst.R, "R", visited[Len(visited)])
        /\ inst.stage \notin {"A", "R", "Q"} => HoldsRowsOf(inst.Q, "Q", visited[Len(visited)])

\* instance 1 analysed in a file that holds an A line of instance 10 before
\* its last line
C7_Witness ==
    /\ variant = "square" /\ inst.stage = "ok"
    /\ visited = <<0, 1>>
    /\ \E k \in 1..Len(recs) - 1 : recs[k].idx = 10 /\ recs[k].kind = "A"
    /\ NRows(inst.A) = 1 /\ NRows(inst.Q) = 1 /\ NRows(inst.R) = 1

\* C8: num_arrays is L + 1 for the index L of the last line, and the loop
\* body runs on 0, 1, ... in increasing order, once each, up to L when the
\* run returns, whatever indices the other lines carry.
C8_InstancesAreZeroToLast ==
    (pc \in {"loop", "done"} \/ visited # <<>>) =>
        /\ num_arrays = L + 1
        /\ Len(visited) <= num_arrays
        /\ visited = [k \in 1..Len(visited) |-> k - 1]
        /\ pc = "loop" => i = Len(visited)
        /\ pc = "done" => Len(visited) = L + 1

\* a run that returned after two instances on a file with a line of instance
\* 10 before the last line
C8_Witness ==
    /\ pc = "done"
    /\ visited = <<0, 1>>
    /\ \E k \in 1..Len(recs) - 1 : recs[k].idx > L

(***************************************************************************)
(* Properties of the error handling                                        *)
(***************************************************************************)
\* the kinds no line of instance j was written with
MissingKinds(j) == {K \in {"A", "Q", "R"} : \A k \in 1..Len(recs) : ~(recs[k].kind = K /\ recs[k].idx = j)}

\* C9: when the file has no line of some kind for the instance analysed, the
\* run ends with a MissingMatrixError and no error metrics are computed.
C9_MissingMatrixIsAnError ==
    (visited # <<>> /\ MissingKinds(visited[Len(visited)]) # {}) =>
        /\ pc = "error"
        /\ exc = "MissingMatrixError"
        /\ inst.errors = NoArray

\* C9 without the kind of the error: the run ends with some exception
C9_MissingMatrixEndsTheRun ==
    (visited # <<>> /\ MissingKinds(visited[Len(visited)]) # {}) => pc = "error"

\* the loop body multiplied Q and R and the product has not the shape of A
ShapeMismatch == visited # <<>> /\ inst.Ar.nd >= 0 /\ Shape(inst.A) # Shape(inst.Ar)

\* C10: when the shape of Q x R differs from that of the decoded A the run
\* ends with an exception: no errors are computed from the two and the run
\* goes no further.
C10_ShapeMismatchIsAnError == ShapeMismatch => pc = "error"

\* the lines of the file that were written malformed
Malformed == {k \in 1..Len(recs) : recs[k].form # "ok"}

\* C11: a file with a malformed line (no colon to find, or a cell token that
\* is no integer) ends the run with a ParseError: the run never returns
\* metrics computed without the line.
C11_MalformedLineIsAParseError ==
    Malformed # {} =>
        /\ pc # "done"
        /\ pc = "error" => exc = "ParseError"

\* C11 in part: a run over a malformed line returns metrics all the same
C11_MalformedLineSkipped == Malformed # {} /\ pc = "done" /\ recs[2].form = "nocolon"


(***************************************************************************)
(* The worst error of an instance, in the three checkers                   *)
(***************************************************************************)
\* the error of element p as the checker defines it: relative to a (the
\* legacy script), relative on the clamped values (relative mode) or the
\* difference (absolute mode)
ElementError(p) ==
    IF variant = "legacy"
    THEN RDiv(RSub(At(inst.A, p[1], p[2]), At(inst.Ar, p[1], p[2])), At(inst.A, p[1], p[2]))
    ELSE IF variant = "square"
    THEN RDiv(RSub(At(inst.Ac, p[1], p[2]), At(inst.Arc, p[1], p[2])), At(inst.Ac, p[1], p[2]))
    ELSE RSub(At(inst.A, p[1], p[2]), At(inst.Ar, p[1], p[2]))

WorstIsMaxMagnitude ==
    IF \E p \in Cells(inst.errors) : RAbs(ElementError(p)) = NaN THEN inst.highest = NaN
    ELSE /\ \E p \in Cells(inst.errors) : inst.highest = RAbs(ElementError(p))
         /\ \A p \in Cells(inst.errors) : RLeq(RAbs(ElementError(p)), inst.highest)

\* C12: in every checker (the legacy script, the relative-mode and the
\* absolute-mode function) the worst error of an instance is the maximum over
\* the elements of the magnitude of the element's error, whatever the sign of
\* the entries of A.
C12_WorstIsMaxMagnitude == inst.stage = "ok" => WorstIsMaxMagnitude

\* C12 for the two functions runErrorChecker
C12_WorstIsMaxMagnitudeInTheFunctions ==
    (inst.stage = "ok" /\ variant # "legacy") => WorstIsMaxMagnitude

(***************************************************************************)
(* Properties of the fixed-point constants                                 *)
(***************************************************************************)
\* the literal 1
One == [neg |-> FALSE, num |-> 1, den |-> 1]
MinusOne == [neg |-> TRUE, num |-> 1, den |-> 1]

\* the constants the script emits: the line of the output and the value
Emitted ==
    {<<3, One>>, <<4, MinusOne>>, <<5, lowerBoundary_P>>, <<6, lowerBoundary_N>>,
     <<7, increment>>, <<8, k_cordic>>}

\* the integer printed on line j of the output, read back as the checker
\* reads a cell: int(x)
RawOf(j) == PyInt(output[j].value).v

\* the raw units of a decoded value: the value times 2^n
Units(x) == RMul(x, RInt(Pow2(n)))

\* u is less than one unit away from the scaled value h, and is h when h is whole
WithinOneUnit(u, h) ==
    /\ -h.den < (u - IntOf(h)) * h.den - (IF h.neg THEN -h.rem ELSE h.rem)
    /\ (u - IntOf(h)) * h.den - (IF h.neg THEN -h.rem ELSE h.rem) < h.den
    /\ h.rem = 0 => u = IntOf(h)

\* C13: decoding (raw x 2^-n, as the checkers decode a cell) the integer the
\* script emits for the value v gives a value that differs from v by less
\* than 2^-n, and v itself when v is a multiple of 2^-n, for positive and
\* for negative v.
C13_RoundTripWithinOneUnit ==
    pc = "printed" =>
        \A c \in Emitted :
            /\ PyInt(output[c[1]].value).ok
            /\ Units(Decode(RawOf(c[1]), n))[2] = 1
            /\ WithinOneUnit(Units(Decode(RawOf(c[1]), n))[1], Scale(c[2], n))

\* n = 15: -0.00005 is emitted as -1 and decoded as -2^-15, k as 19898
C13_Witness ==
    /\ pc = "printed" /\ n = 15
    /\ RawOf(6) = -1 /\ RawOf(5) = 1 /\ RawOf(8) = 19898 /\ RawOf(4) = -32768
    /\ Decode(RawOf(6), n) = <<-1, 32768>>

\* the integer nearest to the scaled value h
Round(h) ==
    IF h.neg THEN -(h.ip + (IF 2 * h.rem >= h.den THEN 1 ELSE 0))
    ELSE h.ip + (IF 2 * h.rem >= h.den THEN 1 ELSE 0)

\* x wrapped to w-bit two's complement
Wrap(x, w) == ((x + Pow2(w - 1)) % Pow2(w)) - Pow2(w - 1)

\* C14: for every m and n and every constant the script emits, the emitted
\* integer is round(value x 2^n) wrapped to m+n-bit two's complement, and
\* lies in [-2^(m+n-1), 2^(m+n-1) - 1].
C14_EmittedIsRoundedAndWrapped ==
    pc = "printed" =>
        \A c \in Emitted :
            /\ RawOf(c[1]) = Wrap(Round(Scale(c[2], n)), m + n)
            /\ -Pow2(m + n - 1) <= RawOf(c[1])
            /\ RawOf(c[1]) <= Pow2(m + n - 1) - 1

\* what the script emits: the scaled value cut towards zero, not wrapped
C14_EmittedIsCut ==
    pc = "printed" => \A c \in Emitted : RawOf(c[1]) = IntOf(Scale(c[2], n))

(***************************************************************************)
(* Properties of the sweep drivers                                         *)
(***************************************************************************)
\* the fields of line r of the file written as number j
Fields(j, r) ==
    SplitOn(SubSeq(disk[j].lines[r], 1, Len(disk[j].lines[r]) - 1), ",", <<>>, <<>>)

\* the experiment the file written as number j belongs to and the value of
\* the returned pair it holds
ExperimentOf(j) == IF j <= 2 THEN 1 ELSE 2
MetricOf(j) == IF j % 2 = 1 THEN 1 ELSE 2

\* the values of n, and of the swept parameter, of the files in the directory
NsOfDirectory == {directory[f].n : f \in 1..Len(directory)}
SweptOfDirectory(ex) ==
    IF ex = 1 THEN {directory[f].k : f \in 1..Len(directory)}
    ELSE {directory[f].i : f \in 1..Len(directory)}

\* the sequence of texts holds the integers of the set S, each once, ascending
AscendingOf(texts, S) ==
    /\ \A c \in 1..Len(texts) : PyInt(texts[c]).ok /\ texts[c] = Str(PyInt(texts[c]).v)
    /\ \A c \in 1..Len(texts) - 1 : PyInt(texts[c]).v < PyInt(texts[c + 1]).v
    /\ {PyInt(texts[c]).v : c \in 1..Len(texts)} = S

\* the capture file of the row value p and the column value nn
FileOfCell(ex, p, nn) ==
    DirectoryString(script)
        \o (IF ex = 1 THEN CaptureName(p, BaseIters(script), m, nn) ELSE CaptureName(16, p, m, nn))

\* text is a metric that a call on the file fn returned, with 20 decimals
IsMetricOf(text, fn, w) ==
    /\ Len(text) - Find(text, <<".">>) = 21
    /\ \E c \in 1..Len(calls) :
          /\ calls[c].name = fn
          /\ Len(calls[c].ret) >= w
          /\ text = FormatFixed(calls[c].ret[w], 20)

CsvTable(j) ==
    /\ disk[j].name = CsvName(script, ExperimentOf(j), IF MetricOf(j) = 1 THEN "worst" ELSE "average")
    /\ \A r \in 1..Len(disk[j].lines) : disk[j].lines[r][Len(disk[j].lines[r])] = "\n"
    /\ Fields(j, 1)[1] = <<IF ExperimentOf(j) = 1 THEN "k" ELSE "i", "\\", "n">>
    /\ AscendingOf(Tail(Fields(j, 1)), NsOfDirectory)
    /\ AscendingOf([r \in 1..Len(disk[j].lines) - 1 |-> Fields(j, r + 1)[1]],
                   SweptOfDirectory(ExperimentOf(j)))
    /\ \A r \in 2..Len(disk[j].lines) :
          /\ Len(Fields(j, r)) = Len(Fields(j, 1)) + 1
          /\ Fields(j, r)[Len(Fields(j, r))] = <<>>
          /\ \A c \in 2..Len(Fields(j, 1)) :
                IsMetricOf(Fields(j, r)[c],
                           FileOfCell(ExperimentOf(j), PyInt(Fields(j, r)[1]).v,
                                      PyInt(Fields(j, 1)[c]).v),
                           MetricOf(j))

\* C15: every CSV file a sweep driver writes has a header that names the
\* swept parameter and then the distinct n values in ascending order, one row
\* per distinct value of the swept parameter in ascending order, and in each
\* row the value of the parameter and then, in the order of the header, the
\* metric of the capture file of that value and that n, each followed by a
\* comma.
C15_CsvTables == \A j \in 1..Len(disk) : CsvTable(j)

\* the four files written from a directory that lists n = 2 before n = 1 and
\* k = 16 before k = 4
C15_Witness ==
    /\ dpc = "finished"
    /\ Len(disk) = 4
    /\ directory[1].n = 2 /\ directory[Len(directory)].n = 1
    /\ directory[1].k = 16 /\ directory[Len(directory)].k = 4
    /\ Len(disk[1].lines) = 3
    /\ Len(Fields(1, 2)) = 4

\* every capture file of the cross product of experiment ex was analysed and
\* gave its metrics
CrossProductDone(ex) ==
    \A p \in SweptOfDirectory(ex), nn \in NsOfDirectory :
        \E c \in 1..Len(calls) : calls[c].name = FileOfCell(ex, p, nn) /\ calls[c].ret # <<>>

\* C16: when the capture file of some pair is missing or its analysis fails,
\* the driver ends at that file: no later file is analysed and no CSV file of
\* the experiment is written; a CSV file is written only when every file of
\* the cross product of its experiment was analysed.
C16_FailureEndsTheSweep ==
    /\ \A c \in 1..Len(calls) :
          calls[c].ret = <<>> =>
              /\ c = Len(calls)
              /\ dpc = "aborted"
              /\ pc = "error"
              /\ \A j \in 1..Len(disk) : ExperimentOf(j) # experiment
    /\ \A j \in 1..Len(disk) : CrossProductDone(ExperimentOf(j))

\* the second experiment ended at a missing file, after one file of it was
\* analysed and with the two CSV files of the first experiment written
C16_Witness ==
    /\ dpc = "aborted" /\ experiment = 2
    /\ exc = "FileNotFoundError"
    /\ calls[Len(calls)].ret = <<>>
    /\ Len(calls) = 6
    /\ Len(disk) = 2

(***************************************************************************)
(* The early-stopping scan of the absolute-mode checker against a full     *)
(* scan of the file as it was read.                                        *)
(***************************************************************************)
\* [x for x in content if x[0:x.find(":")] == f"{K}{j}"] over the file as read
FullScan(K, j) == [exc |-> "", lines |-> SelectLines(file, K, j)]

\* the loop body on the lines the full scan selects for instance j
FullScanInstance(j) ==
    RectScanned(file, n, FullScan("A", j), FullScan("R", j), FullScan("Q", j)).res

\* the lines of each kind stand in non-decreasing instance order
Ordered ==
    \A k1 \in 1..Len(recs) : \A k2 \in k1..Len(recs) :
        recs[k1].kind = recs[k2].kind => recs[k1].idx <= recs[k2].idx

\* the scan of the instance to come selects what the full scan selects, the
\* instance analysed last (and printed, in a verbose run) and the errors
\* collected are those of the full scan
EarlyStopIsFullScan ==
    /\ (pc = "loop" /\ i < num_arrays) =>
           \A K \in {"A", "Q", "R"} : Scan(content, K, i, array_dimension) = FullScan(K, i)
    /\ visited # <<>> =>
           inst = PrintedRect(FullScanInstance(visited[Len(visited)]), ~suppress)
    /\ \A k \in 1..Len(highest_errors) :
           /\ highest_errors[k] = FullScanInstance(k - 1).highest
           /\ mean_errors[k] = FullScanInstance(k - 1).mean
           /\ sd_errors[k] = NpAbs(FullScanInstance(k - 1).errors)

\* C17: in the absolute-mode checker, on every capture whose lines of each
\* kind stand in non-decreasing instance order, the scan that stops early
\* (takewhile with isLast) over the list the processed lines were removed
\* from selects, for every instance and kind, the lines a full scan of the
\* file as read selects, in the same order, and the metrics are the same.
C17_EarlyStopEqualsFullScan == (variant = "rect" /\ Ordered) => EarlyStopIsFullScan

\* C17 for captures whose every line carries its colons
C17_EarlyStopEqualsFullScanOfTaggedLines ==
    (variant = "rect" /\ Ordered /\ \A k \in 1..Len(recs) : recs[k].form # "nocolon") =>
        EarlyStopIsFullScan

\* C17 without the order: a capture whose lines stand in any order
C17_EarlyStopEqualsFullScanInAnyOrder ==
    (variant = "rect" /\ \A k \in 1..Len(recs) : recs[k].form # "nocolon") => EarlyStopIsFullScan

\* the scan of instance 0 ends the run at a line of instance 1 written without
\* its colons, where the full scan yields the metrics of both instances
C17_EarlyStopRaisesWhereFullScanReturns ==
    /\ variant = "rect" /\ Ordered /\ pc = "error" /\ exc = "ValueError"
    /\ visited = <<0>> /\ num_arrays = 2
    /\ FullScanInstance(0).stage = "ok" /\ FullScanInstance(1).stage = "ok"

\* two instances analysed by the scan that stops early, the second after the
\* lines of the first were removed
C17_TwoInstancesScanned ==
    /\ variant = "rect" /\ Ordered /\ pc = "done"
    /\ visited = <<0, 1>> /\ Len(content) < Len(file)

(***************************************************************************)
(* The removal of the processed lines from the working list.  A line is an *)
(* occurrence: a position of the list.                                     *)
(***************************************************************************)
\* the positions of content the scan of kind K selects for instance j
SelectedAt(K, j) ==
    {k \in 1..Len(TakeWhile(content, Tag(K, j + 1), array_dimension, 1, <<>>).lines) :
        Prefix(content[k]) = Tag(K, j)}

SelectedOf(j) == SelectedAt("A", j) \cup SelectedAt("Q", j) \cup SelectedAt("R", j)

\* content without the positions in P, the others in their order
Without(P) ==
    [k \in 1..Len(SelectSeq([h \in 1..Len(content) |-> h], LAMBDA h : h \notin P)) |->
        content[SelectSeq([h \in 1..Len(content) |-> h], LAMBDA h : h \notin P)[k]]]

\* the lines of lines that are not tagged as A, Q or R of instance j
OthersOf(lines, j) ==
    SelectSeq(lines, LAMBDA ln : \A K \in {"A", "Q", "R"} : Prefix(ln) # Tag(K, j))

\* C18: in the absolute-mode checker, when instance i has been processed the
\* working list is the list of before without the lines selected for A, Q
\* and R of instance i, and it holds every line of every other instance and
\* kind in the order of before, also when lines are textually identical.
C18_RemovalTakesTheSelectedLines ==
    [][(variant = "rect" /\ pc = "loop" /\ i < num_arrays /\ i' = i + 1) =>
           /\ content' = Without(SelectedOf(i))
           /\ OthersOf(content', i) = OthersOf(content, i)]_vars

\* instance 0 processed in a file that holds its A line twice, once before
\* and once after the line that stops the scan: the second one stays
C18_Witness ==
    /\ variant = "rect" /\ pc \in {"loop", "done"} /\ i = 1
    /\ \E k1 \in 1..Len(file) : \E k2 \in (k1 + 1)..Len(file) :
           /\ file[k1] = file[k2] /\ Prefix(file[k1]) = Tag("A", 0)
           /\ \E k \in k1..k2 : Prefix(file[k]) = Tag("A", 1)
    /\ \E k \in 1..Len(content) : Prefix(content[k]) = Tag("A", 0)

\* the file that is open in the state: the capture between open and the end
\* of the with block, a CSV file between its open and the end of its block
OpenNow ==
    IF pc = "open" THEN {input_file_name}
    ELSE IF dpc = "worst_open" THEN {CsvName(script, experiment, "worst")}
    ELSE IF dpc = "average_open" THEN {CsvName(script, experiment, "average")}
    ELSE IF rpc = "util_open" THEN {filePath_util(args)}
    ELSE IF rpc = "timing_open" THEN {filePath_timing(args)}
    ELSE IF rpc = "csv_open" THEN {filePath_csv(args)}
    ELSE {}

\* C19: at every point of a run of a checker or of a sweep driver at most one
\* file is open: a capture file is open only between its open and the end of
\* its readlines, closed when its lines are parsed and before the next
\* capture file or a CSV file is opened.
C19_OneFileOpen == Cardinality(handles) <= 1 /\ handles = OpenNow

\* the last CSV file of a sweep is open after eight capture files were read
C19_Witness ==
    /\ dpc = "average_open" /\ experiment = 2
    /\ Len(calls) = 8
    /\ handles = {CsvName(script, 2, "average")}

\* C20: every call of runErrorChecker a sweep driver makes unpacks as many
\* values as the function of its directory returns (two in 3_..., three in
\* 5_...).
C20_UnpackMatchesReturn ==
    /\ (script \in Sweeps /\ dpc = "running" /\ pc = "done") => Len(ret) = UnpackTargets(script)
    /\ (script \in Sweeps /\ dpc = "aborted" /\ pc = "done") => exc # "ValueError"

\* C20 for generate_csv_from_experiments.py
C20_Sweep3UnpacksTwo ==
    (script = "sweep3" /\ dpc \in {"running", "aborted"} /\ pc = "done") =>
        Len(ret) = UnpackTargets(script) /\ dpc = "running"

(***************************************************************************)
(* The console of a verbose run                                            *)
(***************************************************************************)
\* the summaries printed so far
Summaries == SelectSeq(stdout, LAMBDA it : it.head = SUMMARY)

\* a verbose run of a function runErrorChecker has returned
VerboseReturned == variant \in {"square", "rect"} /\ ~suppress /\ ret # <<>>

\* C21: when suppress is false, the summary runErrorChecker prints under the
\* heading "Maximum error across all input arrays/..." shows the aggregate
\* values the call returns, for every capture of one or more instances.
C21_SummaryShowsReturned ==
    VerboseReturned => Len(Summaries) = 1 /\ Summaries[1].val = ret

\* C21 for the relative-mode checker
C21_SummaryShowsReturnedBySquare ==
    (VerboseReturned /\ variant = "square") => Len(Summaries) = 1 /\ Summaries[1].val = ret

\* C21 for captures of one instance
C21_SummaryShowsReturnedOfOneInstance ==
    (VerboseReturned /\ Len(visited) = 1) => Len(Summaries) = 1 /\ Summaries[1].val = ret

\* the absolute-mode checker prints the errors of the last instance: two
\* instances, the worst error in the first
C21_SummaryOfLastInstance ==
    /\ VerboseReturned /\ variant = "rect" /\ visited = <<0, 1>>
    /\ Summaries[1].val = <<inst.highest, inst.mean, inst.var>>
    /\ RLess(Summaries[1].val[1], ret[1])

\* what was printed under the heading head of instance j
ShownAs(head, j) == SelectSeq(stdout, LAMBDA it : it.head = head /\ it.i = j)

\* the console shows, for instance j, the decoded A and the product of the
\* decoded Q and R
ShowsDecodedAndProduct(j) ==
    /\ ShownAs("Original A matrix", j) = <<Item("Original A matrix", j, <<inst.A>>)>>
    /\ ShownAs("A matrix constructed by multiplying Q and R", j)
           = <<Item("A matrix constructed by multiplying Q and R", j,
                    <<MatMul(inst.Q, inst.R).arr>>)>>

\* a verbose run has printed the instance it analysed last
VerboseShown ==
    variant \in {"square", "rect"} /\ ~suppress /\ visited # <<>> /\ inst.stage = "ok"

\* C22: computing the errors of an instance leaves the decoded A and the
\* product Q x R as they were: what verbose output shows as "Original A{i}
\* matrix" and as "A{i} matrix constructed by multiplying Q{i} and R{i}" are
\* the matrix decoded from the capture and the exact product, in both
\* functions runErrorChecker.
C22_ShownMatricesAreUnchanged ==
    VerboseShown => ShowsDecodedAndProduct(visited[Len(visited)])

\* C22 for the absolute-mode checker
C22_ShownMatricesAreUnchangedByRect ==
    (VerboseShown /\ variant = "rect") => ShowsDecodedAndProduct(visited[Len(visited)])

\* the relative-mode checker shows an A whose zero cell was overwritten
C22_ShownAIsClamped ==
    /\ VerboseShown /\ variant = "square" /\ n = 1
    /\ inst.A.rows[1][1] = Zero
    /\ ShownAs("Original A matrix", 0)[1].val[1].rows[1][1] = inst.near0
    /\ inst.near0 # Zero

ReportReturned == script = "utilisation_report" /\ rpc = "returned"

\* C24: processUtilisationReport returns timing_violations = True if and only
\* if the text of the timing report contains VIOLATED, wherever it occurs,
\* the very start included, and False for a report without it.
C24_TimingViolationsIffContainsViolated ==
    ReportReturned => (returned[1].timing_violations <=> Contains(reports.timing, VIOLATED))

\* a VIOLATED after the first character of the report is reported
C24_ViolationAfterTheStartIsReported ==
    (ReportReturned /\ Find(reports.timing, VIOLATED) > 0) => returned[1].timing_violations

\* the flag returned is False exactly for the reports that begin with VIOLATED
C24_FalseOnlyWhenViolatedIsAtTheStart ==
    ReportReturned =>
        (~returned[1].timing_violations <=>
            (Len(reports.timing) >= Len(VIOLATED)
                /\ SubSeq(reports.timing, 1, Len(VIOLATED)) = VIOLATED))

\* a report without VIOLATED was flagged
C24_CleanReportFlagged ==
    /\ ReportReturned
    /\ \A j \in 0..Len(reports.timing) : ~MatchAt(reports.timing, VIOLATED, j)
    /\ reports.timing # <<>>
    /\ returned[1].timing_violations = TRUE

\* a report that begins with VIOLATED was not flagged
C24_ViolationAtTheStartMissed ==
    /\ ReportReturned
    /\ MatchAt(reports.timing, VIOLATED, 0)
    /\ returned[1].timing_violations = FALSE

\* the call wrote the table of the well-formed report and returned its rows
C24_TableReturned ==
    /\ ReportReturned
    /\ Len(written.lines) = 5
    /\ returned[1].rows[1] # <<>>
    /\ returned[1].rows[5] # <<>>
    /\ returned[1].rows[2] # <<>>
    /\ returned[1].rows[3] = <<>>

====
